---------------------------- MODULE Spec2Model ----------------------------
(***************************************************************************)
(* A model of the PDF discovery / download / extraction pipeline:          *)
(*   pdf_downloader.py   (PDFDownloader)                                   *)
(*   nirf_pdf_scraper.py (NIRFPDFScraper)                                  *)
(*                                                                         *)
(* Text is modelled as sequences of one-character strings, so that the     *)
(* string functions of the code (suffix tests, sanitising, truncation)     *)
(* are computed and not assumed.  A response body is a sequence of 8-byte  *)
(* units; the unit "%PDF" is one that starts with the PDF signature.       *)
(***************************************************************************)
EXTENDS Integers, Sequences, FiniteSets, TLC

VARIABLES
    config,        \* PDFDownloader.config (the keys the model reads)
    fs,            \* files under download_dir: path -> sequence of units
    pc,            \* position inside download_pdf
    cur,           \* pdf_info argument of the running download_pdf call
    attempt,       \* loop variable of "for attempt in range(max_retries)"
    stream,        \* unread rest of the streamed response body
    result,        \* value returned by the last download_pdf call
    fetches,       \* session.get calls issued by the current call
    sleeps,        \* time.sleep calls of the current call, in order: <<kind, seconds>>
    warned,        \* "File may not be a PDF" was logged by the current call
    hist,          \* bookkeeping about earlier calls (not program state)
    targets,       \* download_all_pdfs: the pages behind target_urls (input)
    bpc,           \* position inside download_all_pdfs
    scanned,       \* number of target urls scanned so far
    all_pdf_links, \* download_all_pdfs: all_pdf_links
    unique_pdfs,   \* download_all_pdfs: unique_pdfs
    idx,           \* 1-based position of "for pdf_info in unique_pdfs"
    summary,       \* download_all_pdfs: summary
    summary_file,  \* download_summary.json: <<>> (absent) or <<its content>>
    bhist,         \* bookkeeping about the batch run (not program state)
    pdf_dir,       \* NIRFPDFScraper.download_dir: file name -> the PDF document in it
    data_dir,      \* NIRFPDFScraper.data_dir: file name -> the record in it
    pdf_path,      \* extract_text_from_pdf: its argument (a file of download_dir)
    epc,           \* position inside extract_text_from_pdf
    metadata,      \* extract_text_from_pdf: metadata
    page_num,      \* extract_text_from_pdf: pages handled so far
    full_text,     \* extract_text_from_pdf: full_text
    page_texts,    \* extract_text_from_pdf: page_texts
    extracted,     \* value returned by the last extract_text_from_pdf call
    site,          \* the page behind NIRFPDFScraper.base_url (input)
    pdf_links,     \* scrape_and_download_all: pdf_links
    npc,           \* position inside scrape_and_download_all
    nidx,          \* 1-based position of "for pdf_info in pdf_links"
    npath,         \* scrape_and_download_all: pdf_path
    nsummary,      \* scrape_and_download_all: summary
    nsummary_file, \* scraping_summary.json: <<>> (absent) or <<its content>>
    PANDAS_AVAILABLE, \* nirf_data_analyzer: the import of pandas succeeded
    json_files,    \* load_data: the contents of the files *_data.json (input)
    data,          \* NIRFDataAnalyzer.data
    df,            \* NIRFDataAnalyzer.df: <<>> (None) or <<its rows>>
    apc,           \* position inside the analyzer's calls
    stats,         \* value returned by basic_statistics
    args,          \* main: the parsed command line
    config_file,   \* main: the file behind --config (input)
    cli_pc,        \* position inside main
    exit_status,   \* exit status of the process once main is over
    called,        \* the method called directly: "none" before the call
    call_args,     \* the arguments of that call
    returned       \* the value it returned

dlVars == <<config, fs, pc, cur, attempt, stream, result, fetches, sleeps, warned, hist>>
batchVars == <<targets, bpc, scanned, all_pdf_links, unique_pdfs, idx, summary,
               summary_file, bhist>>
extractVars == <<pdf_dir, pdf_path, epc, metadata, page_num, full_text, page_texts, extracted>>
scrapeVars == <<data_dir, site, pdf_links, npc, nidx, npath, nsummary, nsummary_file>>
analyzeVars == <<PANDAS_AVAILABLE, json_files, data, df, apc, stats>>
cliVars == <<args, config_file, cli_pc, exit_status>>
callVars == <<called, call_args, returned>>
toolVars == <<analyzeVars, cliVars, callVars>>
nirfVars == <<extractVars, scrapeVars>>
vars == <<dlVars, batchVars, nirfVars, toolVars>>

(***************************************************************************)
(* Bounds of the model.                                                    *)
(***************************************************************************)
MaxRetriesBound == 3     \* max_retries is drawn from 0 .. MaxRetriesBound
MaxCalls == 2            \* direct download_pdf calls in one behaviour
MaxAnchors == 2          \* a page has at most MaxAnchors link elements
MaxPages == 2            \* a PDF document has at most MaxPages pages
MaxFiles == 2            \* the data directory holds at most MaxFiles record files
NameMaxLength == 6       \* the filename_max_length a user configuration sets

(***************************************************************************)
(* Constants of the program.                                               *)
(***************************************************************************)
\* filename_max_length (default)
FilenameMaxLength == 100
\* len(title.strip()) > 3, len(text) > 3
MinTitleLen == 3
\* 10 <= len(parent_text) <= 200
ParentTextMin == 10
ParentTextMax == 200
\* link_text[:100]
LinkTextMax == 100
\* NIRFPDFScraper: name[:100]
CollegeNameMax == 100
\* NIRFPDFScraper: len(parent_text) < 200
NearbyTextMax == 200

(***************************************************************************)
(* Strings.                                                                *)
(***************************************************************************)
\* Python's None as the result of download_pdf (a path is never empty)
None == <<>>
\* no download_pdf call has been made yet
NoLink == [url |-> [netloc |-> <<>>, rel |-> <<>>], filename |-> <<>>]

UpperLetters ==
    <<"A", "B", "C", "D", "E", "F", "G", "H", "I", "J", "K", "L", "M",
      "N", "O", "P", "Q", "R", "S", "T", "U", "V", "W", "X", "Y", "Z">>
LowerLetters ==
    <<"a", "b", "c", "d", "e", "f", "g", "h", "i", "j", "k", "l", "m",
      "n", "o", "p", "q", "r", "s", "t", "u", "v", "w", "x", "y", "z">>
Digits == <<"0", "1", "2", "3", "4", "5", "6", "7", "8", "9">>
Range(f) == {f[i] : i \in DOMAIN f}

\* str.lower() of one character
LowerChar(c) ==
    IF c \in Range(UpperLetters)
    THEN LowerLetters[CHOOSE i \in DOMAIN UpperLetters : UpperLetters[i] = c]
    ELSE c

Lower(s) == [i \in 1..Len(s) |-> LowerChar(s[i])]

EndsWith(s, suf) ==
    /\ Len(s) >= Len(suf)
    /\ SubSeq(s, Len(s) - Len(suf) + 1, Len(s)) = suf

StartsWith(s, pre) ==
    /\ Len(s) >= Len(pre)
    /\ SubSeq(s, 1, Len(pre)) = pre

Contains(s, sub) ==
    \E i \in 1..(Len(s) - Len(sub) + 1) : SubSeq(s, i, i + Len(sub) - 1) = sub

DotPdf == <<".", "p", "d", "f">>

\* the characters re's \w accepts (ASCII letters, digits, underscore)
WordChars == Range(UpperLetters) \cup Range(LowerLetters) \cup Range(Digits) \cup {"_"}
\* the characters re's \s accepts, among those the model uses
SpaceChars == {" ", "\n"}

\* re.sub(r'[^\w\-_.]', '_', domain)
safe_domain(domain) ==
    [i \in 1..Len(domain) |->
        IF domain[i] \in WordChars \cup {"-", "_", "."} THEN domain[i] ELSE "_"]

(***************************************************************************)
(* URLs.  A URL is the pair of its netloc and the rest (path and query),   *)
(* which is what urljoin(page, href) gives for a relative href on a page   *)
(* at the root of the site.                                                *)
(***************************************************************************)
Host1 == <<"h", "1">>

\* url.lower().endswith('.pdf')
UrlEndsPdf(url) == EndsWith(Lower(url.rel), DotPdf)

(***************************************************************************)
(* download_pdf                                                            *)
(***************************************************************************)
Units == {"%PDF", "data"}

\* the response bodies the server may send: empty, a PDF of one or two units,
\* something that is no PDF
Bodies == {<<>>, <<"%PDF">>, <<"%PDF", "data">>, <<"data">>, <<"data", "data">>}
\* the bodies sent during a batch run
BatchBodies == {<<"%PDF">>, <<"data">>}

\* filepath = subdir / filename, or download_dir / filename
FilePath(cfg, info) ==
    IF cfg.create_subdirs
    THEN <<safe_domain(info.url.netloc), info.filename>>
    ELSE <<<<>>, info.filename>>

ExistsAlways(fsys, path) == TRUE
ExistsNever(fsys, path) == FALSE
\* filepath.exists()
Exists(fsys, path) == path \in DOMAIN fsys

\* open(filepath, 'wb'): creates the file or truncates it
OpenWb(fsys, path) == (path :> <<>>) @@ fsys

\* f.write(chunk)
WriteChunk(fsys, path, chunk) == [fsys EXCEPT ![path] = Append(@, chunk)]

RangeEndOffByOne(cfg) == cfg.max_retries + 1
\* range(self.config['max_retries'])
RangeEnd(cfg) == cfg.max_retries

NeedsPeekWhateverUrl(cfg, info, ctypePdf) == cfg.verify_pdf_content /\ ~ctypePdf
\* 'pdf' not in content_type and not url.lower().endswith('.pdf'), under verify_pdf_content
NeedsPeek(cfg, info, ctypePdf) ==
    cfg.verify_pdf_content /\ ~ctypePdf /\ ~UrlEndsPdf(info.url)

\* "return v" of download_pdf
Return(v) ==
    /\ result' = v
    /\ pc' = "returned"

\* the end of one pass through the loop body: the next attempt, or the loop ends
\* and the function returns None
LoopNext ==
    IF attempt + 1 < RangeEnd(config)
    THEN /\ attempt' = attempt + 1
         /\ pc' = "fetch"
         /\ result' = result
    ELSE /\ attempt' = attempt
         /\ Return(None)

OnRequestExceptionSleepsLast ==
    /\ sleeps' = Append(sleeps, <<"backoff", 2^attempt>>)
    /\ LoopNext
\* except requests.exceptions.RequestException: log, back off unless last attempt
OnRequestException ==
    /\ sleeps' = IF attempt = config.max_retries - 1
                 THEN sleeps
                 ELSE Append(sleeps, <<"backoff", 2^attempt>>)
    /\ LoopNext

OnExceptionRetries ==
    /\ sleeps' = sleeps
    /\ LoopNext
\* except Exception: log and break
OnException ==
    /\ sleeps' = sleeps
    /\ attempt' = attempt
    /\ Return(None)

\* hist.ctypePdf: the content-type of the last response of the current call
\* held the marker pdf (TRUE before any response); hist.body: the body of that
\* response as the server sent it
HistInit ==
    [existed |-> FALSE, allTransport |-> TRUE, clean |-> TRUE,
     wrote |-> FALSE, okBefore |-> {}, returnedBefore |-> {}, ncalls |-> 0,
     ctypePdf |-> TRUE, body |-> <<>>]

\* hist.okBefore: the links for which an earlier call returned a path;
\* hist.returnedBefore: the links for which an earlier call returned at all
NoteFinished(h) ==
    IF cur = NoLink THEN h
    ELSE [h EXCEPT !.okBefore = IF pc = "returned" /\ result # None
                                THEN @ \cup {cur} ELSE @,
                   !.returnedBefore = IF pc = "returned" THEN @ \cup {cur} ELSE @]

\* download_pdf from its entry to the loop: the target path, the exists check
download_pdf_enter(info) ==
    LET path == FilePath(config, info) IN
    /\ cur' = info
    /\ attempt' = 0
    /\ fetches' = 0
    /\ sleeps' = <<>>
    /\ warned' = FALSE
    /\ stream' = <<>>
    /\ hist' = [NoteFinished(hist) EXCEPT !.existed = Exists(fs, path),
                                          !.allTransport = TRUE,
                                          !.clean = TRUE,
                                          !.wrote = FALSE,
                                          !.ctypePdf = TRUE,
                                          !.body = <<>>,
                                          !.ncalls = @ + 1]
    /\ IF Exists(fs, path)
       THEN Return(path)
       ELSE IF 0 < RangeEnd(config)
            THEN pc' = "fetch" /\ result' = None
            ELSE Return(None)
    /\ UNCHANGED <<config, fs>>

\* subdir.mkdir(exist_ok=True) raises OSError: the call raises to its caller
download_pdf_mkdir_raises(info) ==
    /\ config.create_subdirs
    /\ cur' = info
    /\ attempt' = 0
    /\ fetches' = 0
    /\ sleeps' = <<>>
    /\ warned' = FALSE
    /\ stream' = <<>>
    /\ hist' = [NoteFinished(hist) EXCEPT !.existed = Exists(fs, FilePath(config, info)),
                                          !.allTransport = TRUE,
                                          !.clean = TRUE,
                                          !.wrote = FALSE,
                                          !.ctypePdf = TRUE,
                                          !.body = <<>>,
                                          !.ncalls = @ + 1]
    /\ pc' = "raised"
    /\ result' = None
    /\ UNCHANGED <<config, fs>>

\* session.get / raise_for_status raises a RequestException
download_pdf_get_fails ==
    /\ pc = "fetch"
    /\ fetches' = fetches + 1
    /\ OnRequestException
    /\ hist' = [hist EXCEPT !.clean = FALSE]
    /\ UNCHANGED <<config, fs, cur, stream, warned, batchVars, nirfVars, toolVars>>

\* session.get answers 2xx with a content-type header and a body
download_pdf_get_ok(ctypePdf, body) ==
    /\ pc = "fetch"
    /\ fetches' = fetches + 1
    /\ stream' = body
    /\ hist' = [hist EXCEPT !.allTransport = FALSE,
                         !.ctypePdf = ctypePdf,
                         !.body = body,
                         !.clean = @ /\ body # <<>> /\ body[1] = "%PDF"]
    /\ pc' = IF NeedsPeek(config, cur, ctypePdf) THEN "peek" ELSE "open"
    /\ UNCHANGED <<config, fs, cur, attempt, result, sleeps, warned, batchVars, nirfVars, toolVars>>

\* chunk = next(response.iter_content(chunk_size=8), b''); warn unless it starts %PDF
download_pdf_peek ==
    /\ pc = "peek"
    /\ warned' = (warned \/ stream = <<>> \/ Head(stream) # "%PDF")
    /\ stream' = IF stream = <<>> THEN stream ELSE Tail(stream)
    /\ pc' = "open"
    /\ UNCHANGED <<config, fs, cur, attempt, result, fetches, sleeps, hist, batchVars, nirfVars, toolVars>>

\* the read of the first bytes raises a RequestException
download_pdf_peek_fails ==
    /\ pc = "peek"
    /\ OnRequestException
    /\ hist' = [hist EXCEPT !.clean = FALSE]
    /\ UNCHANGED <<config, fs, cur, stream, fetches, warned, batchVars, nirfVars, toolVars>>

\* with open(filepath, 'wb') as f
download_pdf_open ==
    /\ pc = "open"
    /\ fs' = OpenWb(fs, FilePath(config, cur))
    /\ hist' = [hist EXCEPT !.wrote = TRUE]
    /\ pc' = "write"
    /\ UNCHANGED <<config, cur, attempt, stream, result, fetches, sleeps, warned, batchVars, nirfVars, toolVars>>

\* open raises OSError
download_pdf_open_fails ==
    /\ pc = "open"
    /\ OnException
    /\ hist' = [hist EXCEPT !.clean = FALSE]
    /\ UNCHANGED <<config, fs, cur, stream, fetches, warned, batchVars, nirfVars, toolVars>>

\* one pass of "for chunk in response.iter_content(...)": f.write(chunk)
download_pdf_write ==
    /\ pc = "write"
    /\ stream # <<>>
    /\ fs' = WriteChunk(fs, FilePath(config, cur), Head(stream))
    /\ stream' = Tail(stream)
    /\ UNCHANGED <<config, pc, cur, attempt, result, fetches, sleeps, warned, hist, batchVars, nirfVars, toolVars>>

\* f.write raises OSError
download_pdf_write_fails ==
    /\ pc = "write"
    /\ stream # <<>>
    /\ OnException
    /\ hist' = [hist EXCEPT !.clean = FALSE]
    /\ UNCHANGED <<config, fs, cur, stream, fetches, warned, batchVars, nirfVars, toolVars>>

\* iter_content raises a RequestException in mid-stream
download_pdf_stream_fails ==
    /\ pc = "write"
    /\ OnRequestException
    /\ hist' = [hist EXCEPT !.clean = FALSE]
    /\ UNCHANGED <<config, fs, cur, stream, fetches, warned, batchVars, nirfVars, toolVars>>

\* the body is exhausted: stat, sleep delay_between_downloads, return filepath
download_pdf_finish ==
    /\ pc = "write"
    /\ stream = <<>>
    /\ sleeps' = IF config.delay_between_downloads > 0
                 THEN Append(sleeps, <<"delay", config.delay_between_downloads>>)
                 ELSE sleeps
    /\ Return(FilePath(config, cur))
    /\ UNCHANGED <<config, fs, cur, attempt, stream, fetches, warned, hist, batchVars, nirfVars, toolVars>>

\* the steps inside a running download_pdf call, the server answering with one
\* of the given bodies
download_pdf_step(bodies) ==
    \/ download_pdf_get_fails
    \/ \E ctypePdf \in BOOLEAN, body \in bodies : download_pdf_get_ok(ctypePdf, body)
    \/ download_pdf_peek
    \/ download_pdf_peek_fails
    \/ download_pdf_open
    \/ download_pdf_open_fails
    \/ download_pdf_write
    \/ download_pdf_write_fails
    \/ download_pdf_stream_fails
    \/ download_pdf_finish

(***************************************************************************)
(* More string functions, for discovery and file names.                    *)
(***************************************************************************)
Min(a, b) == IF a < b THEN a ELSE b

RECURSIVE LStrip(_)
LStrip(s) == IF s # <<>> /\ Head(s) \in SpaceChars THEN LStrip(Tail(s)) ELSE s

RECURSIVE RStrip(_)
RStrip(s) ==
    IF s # <<>> /\ s[Len(s)] \in SpaceChars THEN RStrip(SubSeq(s, 1, Len(s) - 1)) ELSE s

\* str.strip()
Strip(s) == RStrip(LStrip(s))

\* re.sub(r'[^\w\s-]', '', s)
DropSpecial(s) == SelectSeq(s, LAMBDA c : c \in WordChars \cup SpaceChars \cup {"-"})

\* re.sub(r'\s+', '_', s)
RECURSIVE CollapseSpace(_)
CollapseSpace(s) ==
    IF s = <<>> THEN <<>>
    ELSE IF Head(s) \in SpaceChars
         THEN <<"_">> \o CollapseSpace(LStrip(s))
         ELSE <<Head(s)>> \o CollapseSpace(Tail(s))

\* s[:n]
Take(s, n) == SubSeq(s, 1, Min(Len(s), n))

\* the index of the first character of s that is in cs, or 0
RECURSIVE FirstIn(_, _, _)
FirstIn(s, cs, i) ==
    IF i > Len(s) THEN 0 ELSE IF s[i] \in cs THEN i ELSE FirstIn(s, cs, i + 1)

\* urlparse(url).path of a relative reference: what precedes "?" or "#"
UrlPath(href) ==
    LET i == FirstIn(href, {"?", "#"}, 1)
    IN  IF i = 0 THEN href ELSE SubSeq(href, 1, i - 1)

\* urllib.parse.unquote, for the escapes %20 (space) and %2F (slash)
RECURSIVE Unquote(_)
Unquote(s) ==
    IF s = <<>> THEN <<>>
    ELSE IF Len(s) >= 3 /\ SubSeq(s, 1, 3) = <<"%", "2", "0">>
         THEN <<" ">> \o Unquote(SubSeq(s, 4, Len(s)))
    ELSE IF Len(s) >= 3 /\ SubSeq(s, 1, 3) = <<"%", "2", "F">>
         THEN <<"/">> \o Unquote(SubSeq(s, 4, Len(s)))
    ELSE <<Head(s)>> \o Unquote(Tail(s))

\* the index of the last "/" of s, or 0
RECURSIVE LastSlash(_, _)
LastSlash(s, i) == IF i = 0 THEN 0 ELSE IF s[i] = "/" THEN i ELSE LastSlash(s, i - 1)

\* os.path.basename
Basename(s) == SubSeq(s, LastSlash(s, Len(s)) + 1, Len(s))

\* [p for p in path.split('/') if p][-1], or the empty string when there is none
RECURSIVE LastPart(_)
LastPart(s) ==
    IF s = <<>> THEN <<>>
    ELSE IF s[Len(s)] = "/" THEN LastPart(SubSeq(s, 1, Len(s) - 1))
    ELSE Basename(s)

HexOf(c) ==
    CASE c \in {"a", "b", "c", "d", "e", "f"} -> c
      [] c \in {"1", "2"} -> c
      [] c = "." -> "3"
      [] c = "?" -> "4"
      [] c = "/" -> "5"
      [] OTHER -> "0"

\* hashlib.md5(url.encode()).hexdigest()[:8]: some fixed function of the url to
\* eight hexadecimal digits
Md5Hex8(url) == [i \in 1..8 |-> IF i <= Len(url) THEN HexOf(url[i]) ELSE "0"]

Str_document_ == <<"d", "o", "c", "u", "m", "e", "n", "t", "_">>
Str_PDF_Document == <<"P", "D", "F", " ", "D", "o", "c", "u", "m", "e", "n", "t">>

(***************************************************************************)
(* _generate_filename                                                      *)
(***************************************************************************)
generate_filename_bare_name(cfg, url, title) ==
    LET url_filename == Basename(Unquote(UrlPath(url)))
        clean_title == Take(CollapseSpace(DropSpecial(Strip(title))), cfg.filename_max_length)
        clean_name == CollapseSpace(DropSpecial(LastPart(UrlPath(url))))
    IN  IF title # <<>> /\ Len(Strip(title)) > MinTitleLen /\ clean_title # <<>>
        THEN clean_title \o DotPdf
        ELSE IF url_filename # <<>> /\ EndsWith(Lower(url_filename), DotPdf)
        THEN url_filename
        ELSE IF clean_name # <<>>
        THEN clean_name
        ELSE Str_document_ \o Md5Hex8(url) \o DotPdf

generate_filename(cfg, url, title) ==
    LET url_filename == Basename(Unquote(UrlPath(url)))
        clean_title == Take(CollapseSpace(DropSpecial(Strip(title))), cfg.filename_max_length)
        clean_name == CollapseSpace(DropSpecial(LastPart(UrlPath(url))))
    IN  IF title # <<>> /\ Len(Strip(title)) > MinTitleLen /\ clean_title # <<>>
        THEN clean_title \o DotPdf
        ELSE IF url_filename # <<>> /\ EndsWith(Lower(url_filename), DotPdf)
        THEN url_filename
        ELSE IF clean_name # <<>>
        THEN clean_name \o DotPdf
        ELSE Str_document_ \o Md5Hex8(url) \o DotPdf

(***************************************************************************)
(* Discovery.  A page is the sequence of its link-carrying elements, in    *)
(* document order; an element has a tag, its href (or src), its title and  *)
(* alt attributes, its text, the text of a heading that encloses it and    *)
(* the text of its parent element.                                         *)
(***************************************************************************)
\* _extract_title(element, soup); withSoup is "soup is not None"
extract_title(el, withSoup) ==
    IF Strip(el.title) # <<>> THEN Strip(el.title)
    ELSE IF Strip(el.text) # <<>> /\ Len(Strip(el.text)) > MinTitleLen THEN Strip(el.text)
    ELSE IF Strip(el.alt) # <<>> THEN Strip(el.alt)
    ELSE IF withSoup /\ Strip(el.heading) # <<>> THEN Strip(el.heading)
    ELSE IF Strip(el.parent) # <<>>
            /\ ParentTextMin <= Len(Strip(el.parent))
            /\ Len(Strip(el.parent)) <= ParentTextMax
         THEN Strip(el.parent)
    ELSE Str_PDF_Document

\* _matches_pdf_pattern: re.search with IGNORECASE of  .*\.pdf$  or  .*\.pdf\?.*
matches_pdf_pattern(url) ==
    \/ EndsWith(Lower(url), DotPdf)
    \/ Contains(Lower(url), DotPdf \o <<"?">>)

\* _matches_exclude_pattern: re.search of  .*\.php.*  or  .*download\.aspx.*
matches_exclude_pattern(url) ==
    \/ Contains(Lower(url), <<".", "p", "h", "p">>)
    \/ Contains(Lower(url),
                <<"d", "o", "w", "n", "l", "o", "a", "d", ".", "a", "s", "p", "x">>)

\* urljoin(page url, href), for a relative href on a page at the root of its site
Urljoin(page_url, href) == [netloc |-> page_url.netloc, rel |-> href]

\* _process_pdf_link: <<>> for None, else <<pdf_info>>
process_pdf_link(cfg, el, href, base_url) ==
    IF matches_exclude_pattern(href) THEN <<>>
    ELSE LET title == extract_title(el, FALSE)
         IN  << [url |-> Urljoin(base_url, href),
                 title |-> title,
                 filename |-> generate_filename(cfg, href, title),
                 source_url |-> base_url,
                 link_text |-> Take(Strip(el.text), LinkTextMax)] >>

\* the CSS selectors of link_selectors, in order
SelectorMatches(k, el) ==
    /\ el.tag = "a"
    /\ CASE k = 1 -> EndsWith(el.href, DotPdf)
         [] k = 2 -> EndsWith(el.href, <<".", "P", "D", "F">>)
         [] k = 3 -> Contains(el.href, DotPdf)
         [] k = 4 -> Contains(el.href, <<"p", "d", "f">>)

NumSelectors == 4

InSeq(x, s) == \E i \in 1..Len(s) : s[i] = x

\* "if pdf_info and pdf_info not in pdf_links: pdf_links.append(pdf_info)"
AppendIfNew(links, found) ==
    IF found = <<>> \/ InSeq(found[1], links) THEN links ELSE links \o found

\* Method 1, one selector: the elements it selects, in document order
RECURSIVE SelectorPass(_, _, _, _, _, _)
SelectorPass(cfg, page, target_url, k, i, links) ==
    IF i > Len(page) THEN links
    ELSE SelectorPass(cfg, page, target_url, k, i + 1,
            IF SelectorMatches(k, page[i]) /\ page[i].href # <<>>
            THEN AppendIfNew(links, process_pdf_link(cfg, page[i], page[i].href, target_url))
            ELSE links)

\* Method 1: all the selectors, in order
RECURSIVE Method1(_, _, _, _, _)
Method1(cfg, page, target_url, k, links) ==
    IF k > NumSelectors THEN links
    ELSE Method1(cfg, page, target_url, k + 1,
                 SelectorPass(cfg, page, target_url, k, 1, links))

\* Method 2: every anchor whose href matches a PDF pattern
RECURSIVE Method2(_, _, _, _, _)
Method2(cfg, page, target_url, i, links) ==
    IF i > Len(page) THEN links
    ELSE Method2(cfg, page, target_url, i + 1,
            IF page[i].tag = "a" /\ page[i].href # <<>> /\ matches_pdf_pattern(page[i].href)
            THEN AppendIfNew(links, process_pdf_link(cfg, page[i], page[i].href, target_url))
            ELSE links)

\* Method 3: object, embed and iframe elements whose src matches a PDF pattern
RECURSIVE Method3(_, _, _, _, _)
Method3(cfg, page, target_url, i, links) ==
    IF i > Len(page) THEN links
    ELSE Method3(cfg, page, target_url, i + 1,
            IF page[i].tag \in {"object", "embed", "iframe"}
               /\ page[i].href # <<>> /\ matches_pdf_pattern(page[i].href)
            THEN AppendIfNew(links,
                   << [url |-> Urljoin(target_url, page[i].href),
                       title |-> extract_title(page[i], TRUE),
                       filename |-> generate_filename(cfg, page[i].href, <<>>),
                       source_url |-> target_url,
                       link_text |-> Take(Strip(page[i].text), LinkTextMax)] >>)
            ELSE links)

\* discover_pdf_links for a page that was fetched and parsed
discover_pdf_links(cfg, page, target_url) ==
    Method3(cfg, page, target_url, 1,
        Method2(cfg, page, target_url, 1,
            Method1(cfg, page, target_url, 1, <<>>)))

(***************************************************************************)
(* download_all_pdfs                                                       *)
(***************************************************************************)
SummaryInit ==
    [urls_scanned |-> <<>>, pdfs_found |-> 0, pdfs_downloaded |-> 0,
     successful_downloads |-> <<>>, failed_downloads |-> <<>>, errors |-> <<>>]

\* "Remove duplicates based on URL": the first link of every url, in order
RECURSIVE RemoveDuplicates(_, _, _)
RemoveDuplicates(links, i, unique) ==
    IF i > Len(links) THEN unique
    ELSE RemoveDuplicates(links, i + 1,
            IF \E j \in 1..Len(unique) : unique[j].url = links[i].url
            THEN unique ELSE Append(unique, links[i]))

\* one pass of "for url in target_urls", found being the pdf_links that
\* discover_pdf_links returned; after the last url: unique_pdfs and
\* summary['pdfs_found']
ScanStep(found) ==
    LET links == all_pdf_links \o found
        last == scanned + 1 = Len(targets)
        unique == RemoveDuplicates(links, 1, <<>>)
    IN  /\ bpc = "scan"
        /\ scanned < Len(targets)
        /\ scanned' = scanned + 1
        /\ all_pdf_links' = links
        /\ unique_pdfs' = IF last THEN unique ELSE unique_pdfs
        /\ summary' = [summary EXCEPT
                          !.urls_scanned = Append(@, targets[scanned + 1].url),
                          !.pdfs_found = IF last THEN Len(unique) ELSE @]
        /\ bpc' = IF last THEN "loop" ELSE "scan"
        /\ idx' = 1
        /\ UNCHANGED <<dlVars, targets, summary_file, nirfVars, toolVars>>

\* the page is fetched and parsed
download_all_pdfs_scan ==
    /\ ScanStep(discover_pdf_links(config, targets[scanned + 1].page,
                                   targets[scanned + 1].url))
    /\ bhist' = bhist

download_all_pdfs_scan_fails_stops ==
    /\ bpc = "scan"
    /\ scanned < Len(targets)
    /\ summary' = [summary EXCEPT
                      !.urls_scanned = Append(@, targets[scanned + 1].url),
                      !.errors = Append(@, <<"Critical error">>)]
    /\ bpc' = "done"
    /\ bhist' = [bhist EXCEPT !.pagesOk = FALSE, !.failedPages = @ \cup {scanned + 1}]
    /\ UNCHANGED <<dlVars, targets, scanned, all_pdf_links, unique_pdfs, idx, summary_file,
                   nirfVars, toolVars>>
\* the fetch of the page fails: discover_pdf_links logs and returns []
download_all_pdfs_scan_fails ==
    /\ ScanStep(<<>>)
    /\ bhist' = [bhist EXCEPT !.pagesOk = FALSE, !.failedPages = @ \cup {scanned + 1}]

\* "for pdf_info in unique_pdfs": the call of download_pdf
download_all_pdfs_call ==
    /\ bpc = "loop"
    /\ idx <= Len(unique_pdfs)
    /\ download_pdf_enter(unique_pdfs[idx])
    /\ bpc' = "downloading"
    /\ bhist' = [bhist EXCEPT !.attempted = Append(@, unique_pdfs[idx])]
    /\ UNCHANGED <<targets, scanned, all_pdf_links, unique_pdfs, idx, summary, summary_file, nirfVars, toolVars>>

\* the same call, when it raises
download_all_pdfs_call_raises ==
    /\ bpc = "loop"
    /\ idx <= Len(unique_pdfs)
    /\ download_pdf_mkdir_raises(unique_pdfs[idx])
    /\ bpc' = "downloading"
    /\ bhist' = [bhist EXCEPT !.attempted = Append(@, unique_pdfs[idx])]
    /\ UNCHANGED <<targets, scanned, all_pdf_links, unique_pdfs, idx, summary, summary_file, nirfVars, toolVars>>

RecordSkipsFailed(sm, info, how, res) ==
    IF how = "returned" /\ res # None
    THEN [sm EXCEPT !.pdfs_downloaded = @ + 1,
                    !.successful_downloads =
                        Append(@, [filename |-> info.filename, url |-> info.url,
                                   filepath |-> res])]
    ELSE sm
\* the body of the loop after download_pdf returned res or raised
Record(sm, info, how, res) ==
    IF how = "returned" /\ res # None
    THEN [sm EXCEPT !.pdfs_downloaded = @ + 1,
                    !.successful_downloads =
                        Append(@, [filename |-> info.filename, url |-> info.url,
                                   filepath |-> res])]
    ELSE IF how = "returned"
    THEN [sm EXCEPT !.failed_downloads = Append(@, info)]
    ELSE [sm EXCEPT !.errors = Append(@, <<"Error downloading", info.filename>>),
                    !.failed_downloads = Append(@, info)]

download_all_pdfs_record ==
    /\ bpc = "downloading"
    /\ pc \in {"returned", "raised"}
    /\ summary' = Record(summary, unique_pdfs[idx], pc, result)
    /\ idx' = idx + 1
    /\ bpc' = "loop"
    /\ bhist' = [bhist EXCEPT !.allClean = @ /\ hist.clean /\ pc = "returned",
                            !.fetched = Append(@, fetches > 0),
                            !.paused = Append(@, \E k \in DOMAIN sleeps : sleeps[k][1] = "delay")]
    \* the locals of the finished download_pdf call are gone
    /\ pc' = "idle"
    /\ cur' = NoLink
    /\ attempt' = 0
    /\ stream' = <<>>
    /\ result' = None
    /\ fetches' = 0
    /\ sleeps' = <<>>
    /\ warned' = FALSE
    /\ hist' = HistInit
    /\ UNCHANGED <<config, fs, targets, scanned, all_pdf_links, unique_pdfs, summary_file, nirfVars, toolVars>>

\* json.dump(summary) into download_summary.json; return summary
download_all_pdfs_save ==
    /\ bpc = "loop"
    /\ idx > Len(unique_pdfs)
    /\ summary_file' = <<summary>>
    /\ bpc' = "done"
    /\ UNCHANGED <<dlVars, targets, scanned, all_pdf_links, unique_pdfs, idx, summary, bhist, nirfVars, toolVars>>

\* writing the summary raises: "Critical error in download process", return summary
download_all_pdfs_save_fails ==
    /\ bpc = "loop"
    /\ idx > Len(unique_pdfs)
    /\ summary' = [summary EXCEPT !.errors = Append(@, <<"Critical error">>)]
    /\ bpc' = "done"
    /\ UNCHANGED <<dlVars, targets, scanned, all_pdf_links, unique_pdfs, idx, summary_file, bhist, nirfVars, toolVars>>

(***************************************************************************)
(* The pages of the model.                                                 *)
(***************************************************************************)
El(tag, href, text) ==
    [tag |-> tag, href |-> href, title |-> <<>>, text |-> text, alt |-> <<>>,
     heading |-> <<>>, parent |-> text]

Str_a_pdf == <<"a", ".", "p", "d", "f">>
Str_b_pdf == <<"b", ".", "p", "d", "f">>
Str_b_pdf_q == <<"b", ".", "p", "d", "f", "?", "x">>
Str_c_pdf == <<"c", ".", "p", "d", "f">>
Str_d_pdf_q == <<"d", ".", "p", "d", "f", "?", "x">>
Str_e_pdf == <<"e", ".", "p", "d", "f">>
Str_x_php == <<"x", ".", "p", "h", "p", "?", "a", ".", "p", "d", "f">>
Str_RepA == <<"R", "e", "p", "A">>
Str_RepB == <<"R", "e", "p", "B">>
Str_GetA == <<"G", "e", "t", "A">>

\* an anchor to a.pdf, a second anchor to a.pdf with another text, an anchor to
\* c.pdf with the text of the first, an anchor with a query and a short text,
\* an embedded object, an anchor the exclude patterns reject
Elements ==
    { El("a", Str_a_pdf, Str_RepA),
      El("a", Str_a_pdf, Str_GetA),
      El("a", Str_c_pdf, Str_RepA),
      El("a", Str_d_pdf_q, <<"p", "d", "f">>),
      El("embed", Str_e_pdf, <<>>),
      El("a", Str_x_php, Str_RepB) }

RECURSIVE SeqsUpTo(_, _)
SeqsUpTo(S, n) ==
    IF n = 0 THEN {<<>>}
    ELSE LET shorter == SeqsUpTo(S, n - 1)
         IN  shorter \cup {Append(t, x) : t \in {u \in shorter : Len(u) = n - 1}, x \in S}

Pages == SeqsUpTo(Elements, MaxAnchors)

BaseUrl == [netloc |-> Host1, rel |-> <<>>]

\* bhist.fetched and bhist.paused: for every document whose download_pdf call
\* is over, whether the call issued a request and whether it slept
\* delay_between_downloads
BhistInit ==
    [attempted |-> <<>>, allClean |-> TRUE, pagesOk |-> TRUE, failedPages |-> {},
     fetched |-> <<>>, paused |-> <<>>]

(***************************************************************************)
(* _extract_structured_data: mining of the extracted text with regular     *)
(* expressions.  A pattern is a label (matched ignoring case), then, for   *)
(* all labels but "#", one or more characters of [:\s], then a captured    *)
(* group: the rest of the line ([^\n]+), digits (\d+) or digits and dots   *)
(* ([\d.]+).                                                               *)
(***************************************************************************)
\* s[n:]
Drop(s, n) == SubSeq(s, n + 1, Len(s))

Max(S) == CHOOSE x \in S : \A y \in S : y <= x

\* the length of the longest prefix of s[i-1:] made of characters of cs
RECURSIVE RunLen(_, _, _)
RunLen(s, cs, i) == IF i <= Len(s) /\ s[i] \in cs THEN 1 + RunLen(s, cs, i + 1) ELSE 0

\* the class [:\s]
SepChars == SpaceChars \cup {":"}
\* the class [^\n], among the characters of s
NotNewline(s) == Range(s) \ {"\n"}
\* the class \d and the class [\d.]
DigitChars == Range(Digits)
ScoreChars == DigitChars \cup {"."}

Pattern(label, sep, group) == [label |-> label, sep |-> sep, group |-> group]

\* the characters the group of the pattern accepts
GroupChars(pat, text) ==
    CASE pat.group = "line" -> NotNewline(text)
      [] pat.group = "digits" -> DigitChars
      [] pat.group = "score" -> ScoreChars

\* The match of pat that starts at position i of text: the position of the
\* first character of its group, or 0 when pat does not match at i.  The
\* separator run is greedy and gives characters back until the group can
\* start (the group needs one character of its class).
GroupStartAt(text, pat, i) ==
    LET j == i + Len(pat.label)
        run == RunLen(text, SepChars, j)
        starts == {c \in (j + 1)..Min(j + run, Len(text)) : text[c] \in GroupChars(pat, text)}
    IN  IF j - 1 > Len(text) \/ Lower(SubSeq(text, i, j - 1)) # Lower(pat.label) THEN 0
        ELSE IF ~pat.sep
        THEN IF j <= Len(text) /\ text[j] \in GroupChars(pat, text) THEN j ELSE 0
        ELSE IF starts = {} THEN 0 ELSE Max(starts)

NoMatch == [found |-> FALSE, group |-> <<>>, end |-> 0]

\* re.search(pattern, text[from-1:], re.IGNORECASE): the leftmost match
RECURSIVE search(_, _, _)
search(text, pat, from) ==
    IF from > Len(text) THEN NoMatch
    ELSE LET c == GroupStartAt(text, pat, from)
             n == RunLen(text, GroupChars(pat, text), c)
         IN  IF c = 0 THEN search(text, pat, from + 1)
             ELSE [found |-> TRUE, group |-> SubSeq(text, c, c + n - 1), end |-> c + n - 1]

\* re.findall(pattern, text, re.IGNORECASE): the groups of the successive
\* non-overlapping matches, in the order of the text
RECURSIVE findall(_, _, _)
findall(text, pat, from) ==
    LET m == search(text, pat, from)
    IN  IF m.found THEN <<m.group>> \o findall(text, pat, m.end + 1) ELSE <<>>

\* the first pattern of pats, in the order of the list, that matches
RECURSIVE FirstMatch(_, _)
FirstMatch(text, pats) ==
    IF pats = <<>> THEN NoMatch
    ELSE LET m == search(text, Head(pats), 1)
         IN  IF m.found THEN m ELSE FirstMatch(text, Tail(pats))

Str_College == <<"C", "o", "l", "l", "e", "g", "e">>
Str_Institute == <<"I", "n", "s", "t", "i", "t", "u", "t", "e">>
Str_University == <<"U", "n", "i", "v", "e", "r", "s", "i", "t", "y">>
Str_Name == <<"N", "a", "m", "e">>
Str_Address == <<"A", "d", "d", "r", "e", "s", "s">>
Str_Location == <<"L", "o", "c", "a", "t", "i", "o", "n">>
Str_City == <<"C", "i", "t", "y">>
Str_State == <<"S", "t", "a", "t", "e">>
Str_Rank == <<"R", "a", "n", "k">>
Str_Position == <<"P", "o", "s", "i", "t", "i", "o", "n">>
Str_Score == <<"S", "c", "o", "r", "e">>
Str_Rating == <<"R", "a", "t", "i", "n", "g">>
Str_Points == <<"P", "o", "i", "n", "t", "s">>

college_patterns_swapped ==
    << Pattern(Str_Institute, TRUE, "line"), Pattern(Str_College, TRUE, "line"),
       Pattern(Str_University, TRUE, "line"), Pattern(Str_Name, TRUE, "line") >>
college_patterns ==
    << Pattern(Str_College, TRUE, "line"), Pattern(Str_Institute, TRUE, "line"),
       Pattern(Str_University, TRUE, "line"), Pattern(Str_Name, TRUE, "line") >>
location_patterns ==
    << Pattern(Str_Address, TRUE, "line"), Pattern(Str_Location, TRUE, "line"),
       Pattern(Str_City, TRUE, "line"), Pattern(Str_State, TRUE, "line") >>
ranking_patterns ==
    << Pattern(Str_Rank, TRUE, "digits"), Pattern(Str_Position, TRUE, "digits"),
       Pattern(<<"#">>, FALSE, "digits") >>
score_patterns_rating_first ==
    << Pattern(Str_Rating, TRUE, "score"), Pattern(Str_Score, TRUE, "score"),
       Pattern(Str_Points, TRUE, "score") >>
score_patterns ==
    << Pattern(Str_Score, TRUE, "score"), Pattern(Str_Rating, TRUE, "score"),
       Pattern(Str_Points, TRUE, "score") >>

\* the value of a digit
DigitVal(c) == (CHOOSE i \in DOMAIN Digits : Digits[i] = c) - 1

\* int(s) of a string of digits
RECURSIVE int(_)
int(s) == IF s = <<>> THEN 0 ELSE 10 * int(SubSeq(s, 1, Len(s) - 1)) + DigitVal(s[Len(s)])

\* A float is held as a whole number of thousandths.
FloatUnit == 1000
RECURSIVE Pow10(_)
Pow10(n) == IF n = 0 THEN 1 ELSE 10 * Pow10(n - 1)

\* float(s) raises ValueError, for a string s of digits and dots: s has two
\* dots or no digit
FloatRaises(s) ==
    \/ Cardinality({i \in DOMAIN s : s[i] = "."}) > 1
    \/ \A i \in DOMAIN s : s[i] = "."

\* float(s), for a string of digits with at most one dot and at most three
\* digits after it
float(s) ==
    LET d == FirstIn(s, {"."}, 1)
        whole == IF d = 0 THEN s ELSE SubSeq(s, 1, d - 1)
        frac == IF d = 0 THEN <<>> ELSE Drop(s, d)
    IN  int(whole) * FloatUnit + (int(frac) * FloatUnit) \div Pow10(Len(frac))

\* the matches of all score patterns: pattern by pattern, in text order
RECURSIVE ScoreMatches(_, _)
ScoreMatches(text, pats) ==
    IF pats = <<>> THEN <<>>
    ELSE findall(text, Head(pats), 1) \o ScoreMatches(text, Tail(pats))

\* re.findall(r'\d+\.?\d*', text)
RECURSIVE Numbers(_, _)
Numbers(text, from) ==
    IF from > Len(text) THEN <<>>
    ELSE IF text[from] \notin DigitChars THEN Numbers(text, from + 1)
    ELSE LET n == RunLen(text, DigitChars, from)
             dot == IF from + n <= Len(text) /\ text[from + n] = "." THEN 1 ELSE 0
             m == RunLen(text, DigitChars, from + n + dot)
         IN  <<SubSeq(text, from, from + n + dot + m - 1)>>
                 \o Numbers(text, from + n + dot + m)

\* numbers[:20]
AllNumbersMax == 20

Sum(s) == IF s = <<>> THEN 0 ELSE LET RECURSIVE S(_) S(i) == IF i = 0 THEN 0 ELSE s[i] + S(i - 1) IN S(Len(s))

\* a dict with the key k when present holds
EntryAlways(present, k, v) == k :> v
Entry(present, k, v) == IF present THEN k :> v ELSE <<>>

\* _extract_structured_data raises (ValueError of float) on text
extract_structured_data_raises(text) ==
    \E i \in DOMAIN ScoreMatches(text, score_patterns) :
        FloatRaises(ScoreMatches(text, score_patterns)[i])

\* the dict _extract_structured_data returns when it does not raise
extract_structured_data(text) ==
    LET college == FirstMatch(text, college_patterns)
        location == FirstMatch(text, location_patterns)
        rank == FirstMatch(text, ranking_patterns)
        matches == ScoreMatches(text, score_patterns)
        scores == [i \in DOMAIN matches |-> float(matches[i])]
        numbers == Take(Numbers(text, 1), AllNumbersMax)
    IN  Entry(college.found, "college_name", Strip(college.group))
        @@ Entry(location.found, "location", Strip(location.group))
        @@ Entry(rank.found, "rank", int(rank.group))
        @@ Entry(scores # <<>>, "scores", scores)
        @@ Entry(scores # <<>>, "average_score", [num |-> Sum(scores), den |-> Len(scores)])
        @@ Entry(numbers # <<>>, "all_numbers", [i \in DOMAIN numbers |-> float(numbers[i])])

(***************************************************************************)
(* extract_text_from_pdf.  A PDF document is what pypdf makes of the file: *)
(* whether PdfReader can read it and, for each page in physical order,     *)
(* whether extract_text() returns and the text it returns.  The argument   *)
(* pdf_path is the name of a file of download_dir; open() raises when      *)
(* there is no such file.  Of metadata the model keeps filename, num_pages *)
(* and the error note.                                                     *)
(***************************************************************************)
PdfPage(ok, text) == [ok |-> ok, text |-> text]
Pdf(parses, pages) == [parses |-> parses, pages |-> pages]

\* len(s.split())
RECURSIVE WordCount(_)
WordCount(s) ==
    LET t == LStrip(s)
    IN  IF t = <<>> THEN 0
        ELSE 1 + WordCount(Drop(t, RunLen(t, Range(t) \ SpaceChars, 1)))

\* the except clause of extract_text_from_pdf: the fallback document is returned
extract_except_reraises(path, e) == [epc |-> "raised", extracted |-> <<>>]
extract_except(path, e) ==
    [epc |-> "returned",
     extracted |-> [metadata |-> [filename |-> path, error |-> e],
                    full_text |-> <<>>, pages |-> <<>>, structured_data |-> <<>>,
                    word_count |-> 0, char_count |-> 0]]

\* one pass of "for page_num, page in enumerate(pdf_reader.pages)": the new
\* page_texts and full_text; a page that fails does not stop the loop
page_pass_skips_failed(page, n, texts, full) ==
    IF page.ok
    THEN [page_texts |-> Append(texts, [page_number |-> n + 1, text |-> page.text,
                                        char_count |-> Len(page.text)]),
          full_text |-> full \o page.text \o <<"\n">>]
    ELSE [page_texts |-> texts, full_text |-> full]
page_pass(page, n, texts, full) ==
    IF page.ok
    THEN [page_texts |-> Append(texts, [page_number |-> n + 1, text |-> page.text,
                                        char_count |-> Len(page.text)]),
          full_text |-> full \o page.text \o <<"\n">>]
    ELSE [page_texts |-> Append(texts, [page_number |-> n + 1, text |-> <<>>,
                                        char_count |-> 0, error |-> "extract_text"]),
          full_text |-> full]

extract_text_from_pdf_enter(path) ==
    /\ epc \in {"idle", "returned", "raised"}
    /\ epc' = "open"
    /\ pdf_path' = path
    /\ metadata' = <<>>
    /\ page_num' = 0
    /\ full_text' = <<>>
    /\ page_texts' = <<>>
    /\ extracted' = <<>>
    /\ UNCHANGED pdf_dir

\* open(pdf_path, 'rb') raises: there is no such file
extract_text_from_pdf_open_fails ==
    /\ epc = "open"
    /\ pdf_path \notin DOMAIN pdf_dir
    /\ epc' = extract_except(pdf_path, "open").epc
    /\ extracted' = extract_except(pdf_path, "open").extracted
    /\ UNCHANGED <<pdf_dir, pdf_path, metadata, page_num, full_text, page_texts>>
    /\ UNCHANGED <<dlVars, batchVars, toolVars, scrapeVars>>

\* pypdf.PdfReader(file) raises: the file is not a PDF document
extract_text_from_pdf_reader_fails ==
    /\ epc = "open"
    /\ pdf_path \in DOMAIN pdf_dir
    /\ ~pdf_dir[pdf_path].parses
    /\ epc' = extract_except(pdf_path, "PdfReader").epc
    /\ extracted' = extract_except(pdf_path, "PdfReader").extracted
    /\ UNCHANGED <<pdf_dir, pdf_path, metadata, page_num, full_text, page_texts>>
    /\ UNCHANGED <<dlVars, batchVars, toolVars, scrapeVars>>

extract_text_from_pdf_read ==
    /\ epc = "open"
    /\ pdf_path \in DOMAIN pdf_dir
    /\ pdf_dir[pdf_path].parses
    /\ metadata' = [filename |-> pdf_path, num_pages |-> Len(pdf_dir[pdf_path].pages)]
    /\ full_text' = <<>>
    /\ page_texts' = <<>>
    /\ page_num' = 0
    /\ epc' = "pages"
    /\ UNCHANGED <<pdf_dir, pdf_path, extracted, dlVars, batchVars, toolVars, scrapeVars>>

extract_text_from_pdf_page ==
    /\ epc = "pages"
    /\ page_num < Len(pdf_dir[pdf_path].pages)
    /\ LET r == page_pass(pdf_dir[pdf_path].pages[page_num + 1], page_num, page_texts, full_text)
       IN  /\ page_texts' = r.page_texts
           /\ full_text' = r.full_text
    /\ page_num' = page_num + 1
    /\ UNCHANGED <<pdf_dir, pdf_path, epc, metadata, extracted, dlVars, batchVars, toolVars, scrapeVars>>

\* self._extract_structured_data(full_text) raises
extract_text_from_pdf_mine_fails ==
    /\ epc = "pages"
    /\ page_num = Len(pdf_dir[pdf_path].pages)
    /\ extract_structured_data_raises(full_text)
    /\ epc' = extract_except(pdf_path, "ValueError").epc
    /\ extracted' = extract_except(pdf_path, "ValueError").extracted
    /\ UNCHANGED <<pdf_dir, pdf_path, metadata, page_num, full_text, page_texts>>
    /\ UNCHANGED <<dlVars, batchVars, toolVars, scrapeVars>>

\* the sum of a list of page entries' char_count
RECURSIVE CharCounts(_)
CharCounts(entries) ==
    IF entries = <<>> THEN 0 ELSE Head(entries).char_count + CharCounts(Tail(entries))

extract_text_from_pdf_return_counts_pages ==
    /\ epc = "pages"
    /\ page_num = Len(pdf_dir[pdf_path].pages)
    /\ ~extract_structured_data_raises(full_text)
    /\ extracted' = [metadata |-> metadata, full_text |-> full_text, pages |-> page_texts,
                     structured_data |-> extract_structured_data(full_text),
                     word_count |-> WordCount(full_text), char_count |-> CharCounts(page_texts)]
    /\ epc' = "returned"
    /\ UNCHANGED <<pdf_dir, pdf_path, metadata, page_num, full_text, page_texts>>
    /\ UNCHANGED <<dlVars, batchVars, toolVars, scrapeVars>>
extract_text_from_pdf_return ==
    /\ epc = "pages"
    /\ page_num = Len(pdf_dir[pdf_path].pages)
    /\ ~extract_structured_data_raises(full_text)
    /\ extracted' = [metadata |-> metadata, full_text |-> full_text, pages |-> page_texts,
                     structured_data |-> extract_structured_data(full_text),
                     word_count |-> WordCount(full_text), char_count |-> Len(full_text)]
    /\ epc' = "returned"
    /\ UNCHANGED <<pdf_dir, pdf_path, metadata, page_num, full_text, page_texts>>
    /\ UNCHANGED <<dlVars, batchVars, toolVars, scrapeVars>>

extract_text_from_pdf_step ==
    \/ extract_text_from_pdf_open_fails
    \/ extract_text_from_pdf_reader_fails
    \/ extract_text_from_pdf_read
    \/ extract_text_from_pdf_page
    \/ extract_text_from_pdf_mine_fails
    \/ extract_text_from_pdf_return

(***************************************************************************)
(* NIRFPDFScraper: get_pdf_links, download_pdf, save_extracted_data and    *)
(* scrape_and_download_all.  The page behind base_url is a sequence of     *)
(* anchors, each alone in its parent element and none inside a row whose   *)
(* class names a ranking; site.ok is "the page was fetched".               *)
(***************************************************************************)
Str_pdf == <<"p", "d", "f">>
Str_download == <<"d", "o", "w", "n", "l", "o", "a", "d">>
Str_view == <<"v", "i", "e", "w">>
Str__data_json == <<"_", "d", "a", "t", "a", ".", "j", "s", "o", "n">>

\* s.replace(old, '')
RECURSIVE Remove(_, _)
Remove(s, old) ==
    IF s = <<>> THEN <<>>
    ELSE IF StartsWith(s, old) THEN Remove(Drop(s, Len(old)), old)
    ELSE <<Head(s)>> \o Remove(Tail(s), old)

\* re.sub(r'\s+', ' ', s)
RECURSIVE SingleSpace(_)
SingleSpace(s) ==
    IF s = <<>> THEN <<>>
    ELSE IF Head(s) \in SpaceChars THEN <<" ">> \o SingleSpace(LStrip(s))
    ELSE <<Head(s)>> \o SingleSpace(Tail(s))

\* _clean_college_name
clean_college_name(name) == Take(DropSpecial(SingleSpace(Strip(name))), CollegeNameMax)

\* _extract_college_name(link, soup), for a link with no previous sibling
extract_college_name(link) ==
    LET link_text == Strip(link.text)
        parent_text == Strip(link.parent)
    IN  IF link_text # <<>> /\ Lower(link_text) \notin {Str_pdf, Str_download, Str_view}
        THEN clean_college_name(link_text)
        ELSE IF parent_text # <<>> /\ Len(parent_text) < NearbyTextMax
        THEN clean_college_name(parent_text)
        ELSE clean_college_name(Remove(Basename(link.href), DotPdf))

\* NIRFPDFScraper._generate_filename
nirf_generate_filename(college_name, original_href) ==
    IF Strip(college_name) # <<>>
    THEN CollapseSpace(Strip(DropSpecial(college_name))) \o DotPdf
    ELSE Basename(original_href)

\* get_pdf_links: the anchors whose href ends in .pdf, in document order; an
\* empty list when the page cannot be fetched
RECURSIVE AnchorLinks(_)
AnchorLinks(anchors) ==
    IF anchors = <<>> THEN <<>>
    ELSE LET link == Head(anchors)
             college_name == extract_college_name(link)
         IN  (IF EndsWith(Lower(link.href), DotPdf)
              THEN <<[url |-> Urljoin(BaseUrl, link.href), college_name |-> college_name,
                      filename |-> nirf_generate_filename(college_name, link.href)]>>
              ELSE <<>>) \o AnchorLinks(Tail(anchors))

get_pdf_links(s) == IF s.ok THEN AnchorLinks(s.anchors) ELSE <<>>

NirfSummaryInit ==
    [pdf_links_found |-> 0, pdfs_downloaded |-> 0, pdfs_processed |-> 0,
     errors |-> <<>>, successful_files |-> <<>>, failed_files |-> <<>>]

\* the documents the server answers with: one page naming the college, a
\* page that fails and a page with a score float() rejects, a body that is
\* not a PDF document
Str_College_Alpha == <<"C", "o", "l", "l", "e", "g", "e", ":", " ", "A", "l", "p", "h", "a">>
Str_Score_1_2_3 == <<"S", "c", "o", "r", "e", ":", " ", "1", ".", "2", ".", "3">>
ScrapePdfs ==
    { Pdf(TRUE, <<PdfPage(TRUE, Str_College_Alpha)>>),
      Pdf(TRUE, <<PdfPage(FALSE, <<>>), PdfPage(TRUE, Str_Score_1_2_3)>>),
      Pdf(FALSE, <<>>) }

\* Step 1: pdf_links = self.get_pdf_links(); the early return when it is empty
scrape_and_download_all_no_links ==
    /\ npc = "start"
    /\ get_pdf_links(site) = <<>>
    /\ pdf_links' = <<>>
    /\ nsummary' = [nsummary EXCEPT !.pdf_links_found = 0]
    /\ npc' = "done"
    /\ UNCHANGED <<dlVars, batchVars, toolVars, extractVars, data_dir, site, nidx, npath, nsummary_file>>

scrape_and_download_all_links ==
    /\ npc = "start"
    /\ get_pdf_links(site) # <<>>
    /\ pdf_links' = get_pdf_links(site)
    /\ nsummary' = [nsummary EXCEPT !.pdf_links_found = Len(get_pdf_links(site))]
    /\ nidx' = 1
    /\ npc' = "loop"
    /\ UNCHANGED <<dlVars, batchVars, toolVars, extractVars, data_dir, site, npath, nsummary_file>>

\* NIRFPDFScraper.download_pdf: the file exists already
nirf_download_pdf_exists ==
    /\ npc = "loop" /\ nidx <= Len(pdf_links)
    /\ pdf_links[nidx].filename \in DOMAIN pdf_dir
    /\ npath' = pdf_links[nidx].filename
    /\ npc' = "downloaded"
    /\ UNCHANGED <<dlVars, batchVars, toolVars, extractVars, data_dir, site, pdf_links, nidx, nsummary, nsummary_file>>

\* NIRFPDFScraper.download_pdf: the response is written to the file
nirf_download_pdf_ok(body) ==
    /\ npc = "loop" /\ nidx <= Len(pdf_links)
    /\ pdf_links[nidx].filename \notin DOMAIN pdf_dir
    /\ pdf_dir' = (pdf_links[nidx].filename :> body) @@ pdf_dir
    /\ npath' = pdf_links[nidx].filename
    /\ npc' = "downloaded"
    /\ UNCHANGED <<dlVars, batchVars, toolVars, pdf_path, epc, metadata, page_num, full_text, page_texts, extracted,
                   data_dir, site, pdf_links, nidx, nsummary, nsummary_file>>

\* NIRFPDFScraper.download_pdf: session.get or raise_for_status raises
nirf_download_pdf_get_fails ==
    /\ npc = "loop" /\ nidx <= Len(pdf_links)
    /\ pdf_links[nidx].filename \notin DOMAIN pdf_dir
    /\ npath' = None
    /\ npc' = "downloaded"
    /\ UNCHANGED <<dlVars, batchVars, toolVars, extractVars, data_dir, site, pdf_links, nidx, nsummary, nsummary_file>>

\* NIRFPDFScraper.download_pdf: the stream or the write raises after the file
\* was opened; what was written stays on disk and is not a whole PDF document
nirf_download_pdf_write_fails ==
    /\ npc = "loop" /\ nidx <= Len(pdf_links)
    /\ pdf_links[nidx].filename \notin DOMAIN pdf_dir
    /\ pdf_dir' = (pdf_links[nidx].filename :> Pdf(FALSE, <<>>)) @@ pdf_dir
    /\ npath' = None
    /\ npc' = "downloaded"
    /\ UNCHANGED <<dlVars, batchVars, toolVars, pdf_path, epc, metadata, page_num, full_text, page_texts, extracted,
                   data_dir, site, pdf_links, nidx, nsummary, nsummary_file>>

\* "else: summary['failed_files'].append(...)"
scrape_and_download_all_failed ==
    /\ npc = "downloaded"
    /\ npath = None
    /\ nsummary' = [nsummary EXCEPT !.failed_files = Append(@, pdf_links[nidx].filename)]
    /\ nidx' = nidx + 1
    /\ npc' = "loop"
    /\ UNCHANGED <<dlVars, batchVars, toolVars, extractVars, data_dir, site, pdf_links, npath, nsummary_file>>

\* "if pdf_path:" ... the call of extract_text_from_pdf
scrape_and_download_all_extract ==
    /\ npc = "downloaded"
    /\ npath # None
    /\ nsummary' = [nsummary EXCEPT !.pdfs_downloaded = @ + 1]
    /\ extract_text_from_pdf_enter(npath)
    /\ npc' = "extracting"
    /\ UNCHANGED <<dlVars, batchVars, toolVars, data_dir, site, pdf_links, nidx, npath, nsummary_file>>

\* the name of the record file save_extracted_data writes
json_filename(pdf_info, extracted_data) ==
    LET college_name == IF "college_name" \in DOMAIN extracted_data.structured_data
                        THEN extracted_data.structured_data.college_name
                        ELSE pdf_info.college_name
    IN  CollapseSpace(Strip(DropSpecial(college_name))) \o Str__data_json

\* what the loop body does with the counters after save_extracted_data returned
Processed(sm, pdf_info) ==
    [sm EXCEPT !.pdfs_processed = @ + 1,
               !.successful_files = Append(@, pdf_info.filename)]

\* save_extracted_data writes the record; the loop body counts the document
scrape_and_download_all_save ==
    /\ npc = "extracting" /\ epc = "returned"
    /\ data_dir' = (json_filename(pdf_links[nidx], extracted)
                      :> [pdf_info |-> pdf_links[nidx], extracted_data |-> extracted])
                   @@ data_dir
    /\ nsummary' = Processed(nsummary, pdf_links[nidx])
    /\ nidx' = nidx + 1
    /\ npc' = "loop"
    /\ UNCHANGED <<dlVars, batchVars, toolVars, extractVars, site, pdf_links, npath, nsummary_file>>

\* save_extracted_data cannot open the record file: it logs the error and
\* returns; the loop body counts the document
scrape_and_download_all_save_fails ==
    /\ npc = "extracting" /\ epc = "returned"
    /\ nsummary' = Processed(nsummary, pdf_links[nidx])
    /\ nidx' = nidx + 1
    /\ npc' = "loop"
    /\ UNCHANGED <<dlVars, batchVars, toolVars, extractVars, data_dir, site, pdf_links, npath, nsummary_file>>

\* after the loop: scraping_summary.json is written
scrape_and_download_all_summary ==
    /\ npc = "loop" /\ nidx > Len(pdf_links)
    /\ nsummary_file' = <<nsummary>>
    /\ npc' = "done"
    /\ UNCHANGED <<dlVars, batchVars, toolVars, extractVars, data_dir, site, pdf_links, nidx, npath, nsummary>>

\* after the loop: writing scraping_summary.json raises ("Critical error")
scrape_and_download_all_summary_fails ==
    /\ npc = "loop" /\ nidx > Len(pdf_links)
    /\ nsummary' = [nsummary EXCEPT !.errors = Append(@, "Critical error in scraping process")]
    /\ npc' = "done"
    /\ UNCHANGED <<dlVars, batchVars, toolVars, extractVars, data_dir, site, pdf_links, nidx, npath, nsummary_file>>

\* the anchors of the model's pages: a document, a second document under the
\* same link text, a link whose text is "Download", a link that is no PDF
Str_Alpha_College == <<"A", "l", "p", "h", "a", " ", "C", "o", "l", "l", "e", "g", "e">>
Str_x_doc == <<"x", ".", "d", "o", "c">>
NirfAnchors ==
    { El("a", Str_a_pdf, Str_Alpha_College),
      El("a", Str_b_pdf, Str_Alpha_College),
      El("a", Str_c_pdf, <<"D", "o", "w", "n", "l", "o", "a", "d">>),
      El("a", Str_x_doc, Str_RepA) }

Sites ==
    {[ok |-> TRUE, anchors |-> a] : a \in SeqsUpTo(NirfAnchors, MaxAnchors)}
        \cup {[ok |-> FALSE, anchors |-> <<>>]}

\* no extract_text_from_pdf call is running
ExtractIdle ==
    /\ pdf_path = <<>>
    /\ epc = "idle"
    /\ metadata = <<>>
    /\ page_num = 0
    /\ full_text = <<>>
    /\ page_texts = <<>>
    /\ extracted = <<>>

\* no scrape_and_download_all call is running
ScrapeIdle ==
    /\ data_dir = <<>>
    /\ site = [ok |-> FALSE, anchors |-> <<>>]
    /\ pdf_links = <<>>
    /\ npc = "idle"
    /\ nidx = 1
    /\ npath = None
    /\ nsummary = NirfSummaryInit
    /\ nsummary_file = <<>>

NirfIdle == pdf_dir = <<>> /\ ExtractIdle /\ ScrapeIdle

(***************************************************************************)
(* NIRFDataAnalyzer: load_data, create_dataframe and basic_statistics.     *)
(* json_files holds, in the order of the glob, the contents of the files   *)
(* *_data.json of data_dir: a record as save_extracted_data writes it, or  *)
(* text that json.load rejects.                                            *)
(***************************************************************************)
Str_unknown == <<"u", "n", "k", "n", "o", "w", "n">>

\* a file json.load raises on
CorruptFile == [json_error |-> "JSONDecodeError"]
JsonLoads(file) == "json_error" \notin DOMAIN file

\* the record save_extracted_data writes
RecordOf(pdf_info, extracted_data) == [pdf_info |-> pdf_info, extracted_data |-> extracted_data]

\* dict.get(key, default)
Get(dict, key, default) == IF key \in DOMAIN dict THEN dict[key] ELSE default

\* dict.get(key) of a value that may be None: <<>> for None, <<v>> for v
GetOpt(dict, key) == IF key \in DOMAIN dict THEN <<dict[key]>> ELSE None

\* one pass of "for json_file in json_files": a file that cannot be loaded
\* is reported and skipped
load_one_keeps_bad(d, file) == Append(d, file)
load_one(d, file) == IF JsonLoads(file) THEN Append(d, file) ELSE d

RECURSIVE load_all(_, _)
load_all(files, n) == IF n = 0 THEN <<>> ELSE load_one(load_all(files, n - 1), files[n])

\* the record create_dataframe makes of an item of self.data
Row(item) ==
    LET pdf_info == Get(item, "pdf_info", <<>>)
        extracted_data == Get(item, "extracted_data", <<>>)
        structured_data == Get(extracted_data, "structured_data", <<>>)
        meta == Get(extracted_data, "metadata", <<>>)
        scores == Get(structured_data, "scores", <<>>)
        text == Get(extracted_data, "full_text", <<>>)
    IN  [filename |-> Get(pdf_info, "filename", Str_unknown),
         college_name |-> IF Get(structured_data, "college_name", <<>>) # <<>>
                          THEN structured_data.college_name
                          ELSE Get(pdf_info, "college_name", Str_unknown),
         location |-> Get(structured_data, "location", Str_unknown),
         rank |-> GetOpt(structured_data, "rank"),
         num_pages |-> Get(meta, "num_pages", 0),
         word_count |-> Get(extracted_data, "word_count", 0),
         char_count |-> Get(extracted_data, "char_count", 0),
         num_scores |-> Len(scores),
         average_score |-> GetOpt(structured_data, "average_score"),
         text_length |-> Len(text),
         extraction_successful |-> Len(text) > 0]

\* create_dataframe: None without pandas, else the DataFrame of the records
create_dataframe(d, pandas) == IF pandas THEN <<[i \in DOMAIN d |-> Row(d[i])]>> ELSE None

\* the number of indices of s that satisfy P
CountIf(s, P(_)) == Cardinality({i \in DOMAIN s : P(s[i])})

\* f"{(successful / total * 100):.1f}%": the rate in tenths of a percent
SuccessRate(successful, total) == (2000 * successful + total) \div (2 * total)

\* basic_statistics without pandas
reduced_statistics_counts_all(d) ==
    [total_colleges |-> Len(d), note |-> "Limited statistics without pandas",
     successful_extractions |-> Len(d), failed_extractions |-> 0,
     success_rate |-> SuccessRate(Len(d), Len(d))]
reduced_statistics(d) ==
    LET successful ==
            CountIf(d, LAMBDA item : Get(Get(item, "extracted_data", <<>>), "full_text", <<>>) # <<>>)
    IN  [total_colleges |-> Len(d), note |-> "Limited statistics without pandas",
         successful_extractions |-> successful,
         failed_extractions |-> Len(d) - successful,
         success_rate |-> SuccessRate(successful, Len(d))]

RECURSIVE SumOf(_, _, _)
SumOf(rows, col, n) == IF n = 0 THEN 0 ELSE rows[n][col] + SumOf(rows, col, n - 1)

\* basic_statistics with pandas, over the rows of self.df (the averages,
\* which are formatted for display, are left out)
full_statistics(rows) ==
    LET successful == CountIf(rows, LAMBDA r : r.extraction_successful)
        ranks == {rows[i].rank[1] : i \in {j \in DOMAIN rows : rows[j].rank # None}}
    IN  [total_colleges |-> Len(rows),
         successful_extractions |-> successful,
         failed_extractions |-> Len(rows) - successful,
         success_rate |-> SuccessRate(successful, Len(rows)),
         total_pages |-> SumOf(rows, "num_pages", Len(rows)),
         total_words_extracted |-> SumOf(rows, "word_count", Len(rows))]
        @@ (IF ranks = {} THEN <<>>
            ELSE [colleges_with_rank |-> CountIf(rows, LAMBDA r : r.rank # None),
                  highest_rank |-> CHOOSE x \in ranks : \A y \in ranks : x <= y,
                  lowest_rank |-> Max(ranks)])

\* load_data, with the create_dataframe call that ends it
load_data ==
    /\ apc = "init"
    /\ data' = load_all(json_files, Len(json_files))
    /\ df' = IF data' # <<>> THEN create_dataframe(data', PANDAS_AVAILABLE) ELSE None
    /\ apc' = "loaded"
    /\ UNCHANGED <<PANDAS_AVAILABLE, json_files, stats>>
    /\ UNCHANGED <<dlVars, batchVars, nirfVars, cliVars, callVars>>

\* basic_statistics: "if not self.data"
basic_statistics_no_data ==
    /\ apc = "loaded"
    /\ data = <<>>
    /\ stats' = [error |-> "No data available"]
    /\ apc' = "reported"
    /\ UNCHANGED <<PANDAS_AVAILABLE, json_files, data, df>>
    /\ UNCHANGED <<dlVars, batchVars, nirfVars, cliVars, callVars>>

\* basic_statistics: "if not PANDAS_AVAILABLE or self.df is None"
basic_statistics_reduced ==
    /\ apc = "loaded"
    /\ data # <<>>
    /\ ~PANDAS_AVAILABLE \/ df = None
    /\ stats' = reduced_statistics(data)
    /\ apc' = "reported"
    /\ UNCHANGED <<PANDAS_AVAILABLE, json_files, data, df>>
    /\ UNCHANGED <<dlVars, batchVars, nirfVars, cliVars, callVars>>

\* basic_statistics: the statistics of the DataFrame
basic_statistics_full ==
    /\ apc = "loaded"
    /\ data # <<>>
    /\ PANDAS_AVAILABLE /\ df # None
    /\ stats' = IF df[1] = <<>> THEN [error |-> "No data available"] ELSE full_statistics(df[1])
    /\ apc' = "reported"
    /\ UNCHANGED <<PANDAS_AVAILABLE, json_files, data, df>>
    /\ UNCHANGED <<dlVars, batchVars, nirfVars, cliVars, callVars>>

\* no analyzer exists
AnalyzeIdle ==
    /\ PANDAS_AVAILABLE = FALSE
    /\ json_files = <<>>
    /\ data = <<>>
    /\ df = None
    /\ apc = "idle"
    /\ stats = <<>>

\* main is not running
CliIdle ==
    /\ args = <<>>
    /\ config_file = <<>>
    /\ cli_pc = "idle"
    /\ exit_status = 0

\* no method was called directly
CallIdle ==
    /\ called = "none"
    /\ call_args = <<>>
    /\ returned = <<>>

ToolIdle == AnalyzeIdle /\ CliIdle /\ CallIdle

(***************************************************************************)
(* Spec: download_pdf called directly, any number of times up to MaxCalls, *)
(* for links a caller hands in.                                            *)
(***************************************************************************)

DirectLinks ==
    { [url |-> [netloc |-> Host1, rel |-> Str_a_pdf], filename |-> Str_a_pdf],
      [url |-> [netloc |-> Host1, rel |-> Str_b_pdf_q], filename |-> Str_b_pdf] }

Configs ==
    [max_retries : 0..MaxRetriesBound,
     verify_pdf_content : BOOLEAN,
     create_subdirs : BOOLEAN,
     delay_between_downloads : {0, 1},
     filename_max_length : {FilenameMaxLength}]

EmptyDir == [p \in {} |-> <<>>]

\* no download_pdf call is running
DlIdle ==
    /\ fs = EmptyDir
    /\ pc = "idle"
    /\ cur = NoLink
    /\ attempt = 0
    /\ stream = <<>>
    /\ result = None
    /\ fetches = 0
    /\ sleeps = <<>>
    /\ warned = FALSE
    /\ hist = HistInit

DlInit == config \in Configs /\ DlIdle

\* no batch is running
BatchIdle ==
    /\ targets = <<>>
    /\ bpc = "idle"
    /\ scanned = 0
    /\ all_pdf_links = <<>>
    /\ unique_pdfs = <<>>
    /\ idx = 1
    /\ summary = SummaryInit
    /\ summary_file = <<>>
    /\ bhist = BhistInit

Init == DlInit /\ BatchIdle /\ NirfIdle /\ ToolIdle

Call(info) ==
    /\ pc \in {"idle", "returned", "raised"}
    /\ hist.ncalls < MaxCalls
    /\ download_pdf_enter(info)
    /\ UNCHANGED <<batchVars, nirfVars, toolVars>>

CallRaises(info) ==
    /\ pc \in {"idle", "returned", "raised"}
    /\ hist.ncalls < MaxCalls
    /\ download_pdf_mkdir_raises(info)
    /\ UNCHANGED <<batchVars, nirfVars, toolVars>>

Next ==
    \/ \E info \in DirectLinks : Call(info)
    \/ \E info \in DirectLinks : CallRaises(info)
    \/ download_pdf_step(Bodies)

Spec == Init /\ [][Next]_vars

(***************************************************************************)
(* SpecBatch: one run of download_all_pdfs on base_url.                    *)
(***************************************************************************)
\* the configurations of the batch runs: the test's (no delay), one or two attempts
BatchConfigs ==
    {c \in Configs : c.create_subdirs /\ c.delay_between_downloads = 0
                     /\ c.max_retries \in {1, 2}}

InitBatch ==
    /\ DlInit
    /\ config \in BatchConfigs
    /\ targets \in {<<[url |-> BaseUrl, page |-> p]>> : p \in Pages}
    /\ NirfIdle
    /\ ToolIdle
    /\ bpc = "scan"
    /\ scanned = 0
    /\ all_pdf_links = <<>>
    /\ unique_pdfs = <<>>
    /\ idx = 1
    /\ summary = SummaryInit
    /\ summary_file = <<>>
    /\ bhist = BhistInit

NextBatch ==
    \/ download_all_pdfs_scan
    \/ download_all_pdfs_scan_fails
    \/ download_all_pdfs_call
    \/ download_all_pdfs_call_raises
    \/ download_pdf_step(BatchBodies)
    \/ download_all_pdfs_record
    \/ download_all_pdfs_save
    \/ download_all_pdfs_save_fails

SpecBatch == InitBatch /\ [][NextBatch]_vars

(***************************************************************************)
(* SpecMulti: download_all_pdfs(urls) with two urls, each behind a page    *)
(* with one link or none; the fetch of either page may fail.               *)
(***************************************************************************)
Page2Url == [netloc |-> Host1, rel |-> <<"p", "2">>]

MultiPages ==
    { <<>>, <<El("a", Str_a_pdf, Str_RepA)>>, <<El("a", Str_c_pdf, Str_RepB)>>,
      <<El("a", Str_d_pdf_q, <<"p", "d", "f">>)>> }

\* configurations that verify the content, with and without a delay between
\* downloads
MultiConfigs ==
    {c \in Configs : c.create_subdirs /\ c.verify_pdf_content /\ c.max_retries \in {1, 2}}

InitMulti ==
    /\ DlInit
    /\ config \in MultiConfigs
    /\ targets \in {<<[url |-> BaseUrl, page |-> p], [url |-> Page2Url, page |-> q]>> :
                       p \in MultiPages, q \in MultiPages}
    /\ NirfIdle
    /\ ToolIdle
    /\ bpc = "scan"
    /\ scanned = 0
    /\ all_pdf_links = <<>>
    /\ unique_pdfs = <<>>
    /\ idx = 1
    /\ summary = SummaryInit
    /\ summary_file = <<>>
    /\ bhist = BhistInit

SpecMulti == InitMulti /\ [][NextBatch]_vars

(***************************************************************************)
(* SpecExtract: one call of extract_text_from_pdf, for a file that is      *)
(* missing, is not a PDF document, or is a document of up to MaxPages      *)
(* pages.                                                                  *)
(***************************************************************************)
\* the configuration __init__ builds when none is given
DefaultConfig ==
    [max_retries |-> 3, verify_pdf_content |-> TRUE, create_subdirs |-> TRUE,
     delay_between_downloads |-> 1, filename_max_length |-> FilenameMaxLength]

Str_Institute_Beta ==
    <<"I", "n", "s", "t", "i", "t", "u", "t", "e", ":", " ", "B", "e", "t", "a">>
Str_Rank_7_Score_80 ==
    <<"R", "a", "n", "k", ":", " ", "7", "\n", "S", "c", "o", "r", "e", ":", " ", "8", "0">>
Str_university == <<"u", "n", "i", "v", "e", "r", "s", "i", "t", "y">>
Str_college == <<"c", "o", "l", "l", "e", "g", "e">>
Str_Rating_90 == <<"R", "a", "t", "i", "n", "g", ":", " ", "9", "0">>
Str_Points_5 == <<"P", "o", "i", "n", "t", "s", " ", "5">>
Str_Rank_0 == <<"R", "a", "n", "k", ":", " ", "0">>

\* the texts extract_text() returns: each label on a line, both labels on one
\* line, labels with nothing after them, fields with numbers, a score float()
\* rejects, a rank of zero, no text
PageTexts ==
    { Str_College_Alpha, Str_Institute_Beta,
      Str_College_Alpha \o <<" ">> \o Str_Institute_Beta,
      Str_university, Str_college, Str_Rank_7_Score_80, Str_Rating_90, Str_Points_5,
      Str_Score_1_2_3, Str_Rank_0, <<>> }

PdfPages == {PdfPage(TRUE, t) : t \in PageTexts} \cup {PdfPage(FALSE, <<>>)}

Pdfs == {Pdf(TRUE, p) : p \in SeqsUpTo(PdfPages, MaxPages)} \cup {Pdf(FALSE, <<>>)}

InitExtract ==
    /\ config = DefaultConfig
    /\ ToolIdle
    /\ DlIdle
    /\ BatchIdle
    /\ ScrapeIdle
    /\ ExtractIdle
    /\ pdf_dir \in {<<>>} \cup {Str_a_pdf :> d : d \in Pdfs}

ExtractCall(path) ==
    /\ epc = "idle"
    /\ extract_text_from_pdf_enter(path)
    /\ UNCHANGED <<dlVars, batchVars, toolVars, scrapeVars>>

NextExtract ==
    \/ ExtractCall(Str_a_pdf)
    \/ extract_text_from_pdf_step

SpecExtract == InitExtract /\ [][NextExtract]_vars

(***************************************************************************)
(* SpecScrape: one run of scrape_and_download_all.                         *)
(***************************************************************************)
InitScrape ==
    /\ config = DefaultConfig
    /\ ToolIdle
    /\ DlIdle
    /\ BatchIdle
    /\ ExtractIdle
    /\ pdf_dir = <<>>
    /\ data_dir = <<>>
    /\ site \in Sites
    /\ pdf_links = <<>>
    /\ npc = "start"
    /\ nidx = 1
    /\ npath = None
    /\ nsummary = NirfSummaryInit
    /\ nsummary_file = <<>>

NextScrape ==
    \/ scrape_and_download_all_no_links
    \/ scrape_and_download_all_links
    \/ nirf_download_pdf_exists
    \/ \E body \in ScrapePdfs : nirf_download_pdf_ok(body)
    \/ nirf_download_pdf_get_fails
    \/ nirf_download_pdf_write_fails
    \/ scrape_and_download_all_failed
    \/ scrape_and_download_all_extract
    \/ extract_text_from_pdf_reader_fails
    \/ extract_text_from_pdf_read
    \/ extract_text_from_pdf_page
    \/ extract_text_from_pdf_mine_fails
    \/ extract_text_from_pdf_return
    \/ scrape_and_download_all_save
    \/ scrape_and_download_all_save_fails
    \/ scrape_and_download_all_summary
    \/ scrape_and_download_all_summary_fails

SpecScrape == InitScrape /\ [][NextScrape]_vars

(***************************************************************************)
(* SpecAnalyze: a NIRFDataAnalyzer is built over a data directory of up to *)
(* MaxFiles record files, with or without pandas, and basic_statistics is  *)
(* called.                                                                 *)
(***************************************************************************)
\* the document extract_text_from_pdf returns for a PDF of one page
OnePageDocument(filename, text) ==
    [metadata |-> [filename |-> filename, num_pages |-> 1],
     full_text |-> text \o <<"\n">>,
     pages |-> <<[page_number |-> 1, text |-> text, char_count |-> Len(text)]>>,
     structured_data |-> extract_structured_data(text \o <<"\n">>),
     word_count |-> WordCount(text \o <<"\n">>),
     char_count |-> Len(text) + 1]

\* the records of the model: two mined documents, one with a rank, and the
\* record of a document whose extraction fell back
RecordFiles ==
    LET links == AnchorLinks(<<El("a", Str_a_pdf, Str_Alpha_College), El("a", Str_c_pdf, <<>>)>>)
    IN  { RecordOf(links[1], OnePageDocument(links[1].filename, Str_College_Alpha)),
          RecordOf(links[2], OnePageDocument(links[2].filename, Str_Rank_7_Score_80)),
          RecordOf(links[2], extract_except(links[2].filename, "PdfReader").extracted),
          CorruptFile }

InitAnalyze ==
    /\ config = DefaultConfig
    /\ DlIdle
    /\ BatchIdle
    /\ NirfIdle
    /\ CliIdle
    /\ CallIdle
    /\ PANDAS_AVAILABLE \in BOOLEAN
    /\ json_files \in SeqsUpTo(RecordFiles, MaxFiles)
    /\ data = <<>>
    /\ df = None
    /\ apc = "init"
    /\ stats = <<>>

NextAnalyze ==
    \/ load_data
    \/ basic_statistics_no_data
    \/ basic_statistics_reduced
    \/ basic_statistics_full

SpecAnalyze == InitAnalyze /\ [][NextAnalyze]_vars

(***************************************************************************)
(* SpecNames: _generate_filename and discover_pdf_links called directly on *)
(* a PDFDownloader with the default configuration, or with a configuration *)
(* that sets filename_max_length to NameMaxLength.                         *)
(***************************************************************************)
\* n times the character c
Rep(c, n) == [i \in 1..n |-> c]

Str_a_PDF == <<"a", ".", "P", "D", "F">>
Str_e_PDF == <<"e", ".", "P", "D", "F">>
Str_dir_report == <<"d", "i", "r", "/", "r", "e", "p", "o", "r", "t">>
Str_ab == <<"a", "b">>
Str_bangs == <<"!", "!", "!", "!">>

\* a name one character longer than NameMaxLength
LongName == Rep("n", NameMaxLength + 1)

\* the configurations: the defaults, and a user configuration with a small
\* filename_max_length
NameConfigs ==
    {DefaultConfig, [DefaultConfig EXCEPT !.filename_max_length = NameMaxLength]}

\* the url arguments: a basename in .pdf, in .PDF, with a query, a path whose
\* last segment has no extension, a path with no segment, no path at all, and
\* long names with and without the extension
NameUrls ==
    { Str_a_pdf, Str_a_PDF, Str_b_pdf_q, Str_dir_report, <<"/">>, <<>>,
      LongName \o DotPdf, LongName }

\* the title arguments: none, too short, good, nothing left after cleaning,
\* longer than NameMaxLength
NameTitles == { <<>>, Str_ab, Str_RepA, Str_bangs, LongName }

Str_Docs == <<"D", "o", "c", "s">>

\* the elements of the pages: those of Elements, an anchor and an embedded
\* object in .PDF, an anchor with a title attribute too short to name the
\* file, an embedded object whose src matches an exclude pattern, an anchor
\* with a long name, and an anchor and an embedded object that stand in a
\* heading and have a short text
NameElements ==
    Elements \cup
    { [El("a", Str_a_PDF, <<>>) EXCEPT !.title = Str_ab],
      El("embed", Str_e_PDF, <<>>),
      El("embed", Str_x_php, <<>>),
      [El("a", LongName \o DotPdf, <<>>) EXCEPT !.title = Str_ab],
      [El("a", Str_b_pdf, Str_ab) EXCEPT !.heading = Str_Docs \o Str_ab,
                                         !.parent = Str_Docs \o Str_ab],
      [El("embed", Str_c_pdf, Str_ab) EXCEPT !.heading = Str_Docs \o Str_ab,
                                             !.parent = Str_Docs \o Str_ab] }

\* a direct call of _generate_filename(url, title)
generate_filename_call ==
    /\ called = "none"
    /\ \E url \in NameUrls, title \in NameTitles :
        /\ call_args' = [url |-> url, title |-> title]
        /\ returned' = generate_filename(config, url, title)
    /\ called' = "_generate_filename"
    /\ UNCHANGED <<dlVars, batchVars, nirfVars, analyzeVars, cliVars>>

\* a direct call of discover_pdf_links(): the page is fetched and parsed
discover_pdf_links_call ==
    /\ called = "none"
    /\ \E page \in SeqsUpTo(NameElements, MaxAnchors) :
        /\ call_args' = [url |-> BaseUrl, page |-> page]
        /\ returned' = discover_pdf_links(config, page, BaseUrl)
    /\ called' = "discover_pdf_links"
    /\ UNCHANGED <<dlVars, batchVars, nirfVars, analyzeVars, cliVars>>

\* a direct call of discover_pdf_links(): session.get or raise_for_status
\* raises, or the parsing does
discover_pdf_links_call_fails ==
    /\ called = "none"
    /\ \E page \in SeqsUpTo(NameElements, MaxAnchors) :
        call_args' = [url |-> BaseUrl, page |-> page]
    /\ returned' = <<>>
    /\ called' = "discover_pdf_links failed"
    /\ UNCHANGED <<dlVars, batchVars, nirfVars, analyzeVars, cliVars>>

InitNames ==
    /\ config \in NameConfigs
    /\ DlIdle
    /\ BatchIdle
    /\ NirfIdle
    /\ ToolIdle

NextNames ==
    \/ generate_filename_call
    \/ discover_pdf_links_call
    \/ discover_pdf_links_call_fails

SpecNames == InitNames /\ [][NextNames]_vars

(***************************************************************************)
(* SpecCli: main, the command line of pdf_downloader.  args is the parsed  *)
(* command line; config_file is <<>> when the file behind --config does    *)
(* not exist, else <<c>> where c is the settings it holds, CorruptFile when *)
(* json.load rejects it, or UnreadableFile when open raises an OSError      *)
(* other than FileNotFoundError.                                            *)
(***************************************************************************)
UnreadableFile == [os_error |-> "PermissionError"]

\* load_config_from_file, for a file that exists and can be read
load_config_from_file(file) == IF JsonLoads(file) THEN file ELSE <<>>

\* "config.update({...})" with the values of the command line, then
\* "self.config.update(config)" over the defaults of __init__
MergedConfig(file_config, a) ==
    LET cli == [delay_between_downloads |-> a.delay, max_retries |-> a.max_retries,
                verify_pdf_content |-> ~a.no_verify]
        merged == cli @@ file_config @@ DefaultConfig
    IN  [k \in DOMAIN DefaultConfig |-> merged[k]]

\* main up to the call of download_all_pdfs(), the PDFDownloader being built
\* with the configuration cfg
MainStarts(file_config) ==
    /\ config' = MergedConfig(file_config, args)
    /\ \E page \in MultiPages : targets' = <<[url |-> BaseUrl, page |-> page]>>
    /\ bpc' = "scan"
    /\ cli_pc' = "running"
    /\ UNCHANGED <<fs, pc, cur, attempt, stream, result, fetches, sleeps, warned, hist>>
    /\ UNCHANGED <<scanned, all_pdf_links, unique_pdfs, idx, summary, summary_file, bhist>>
    /\ UNCHANGED <<nirfVars, analyzeVars, callVars, args, config_file, exit_status>>

\* no --config: config = {}
main_no_config ==
    /\ cli_pc = "start"
    /\ ~args.config
    /\ MainStarts(<<>>)

\* --config names a file that holds settings
main_config_loaded ==
    /\ cli_pc = "start"
    /\ args.config
    /\ config_file # <<>> /\ config_file[1] # UnreadableFile /\ JsonLoads(config_file[1])
    /\ MainStarts(load_config_from_file(config_file[1]))

\* --config names no file: "Configuration file not found", config = {}
main_config_not_found ==
    /\ cli_pc = "start"
    /\ args.config
    /\ config_file = <<>>
    /\ MainStarts(<<>>)

\* --config names a file json.load rejects: "Error parsing configuration
\* file", config = {}
main_config_unparsable ==
    /\ cli_pc = "start"
    /\ args.config
    /\ config_file # <<>> /\ ~JsonLoads(config_file[1])
    /\ MainStarts(load_config_from_file(config_file[1]))

\* main ends without running: status is the exit status of the interpreter
\* after an uncaught exception
MainRaises ==
    /\ cli_pc' = "exited"
    /\ exit_status' = 1
    /\ UNCHANGED <<dlVars, batchVars, nirfVars, analyzeVars, callVars, args, config_file>>

\* open raises an OSError load_config_from_file does not catch
main_config_unreadable ==
    /\ cli_pc = "start"
    /\ args.config
    /\ config_file = <<UnreadableFile>>
    /\ MainRaises

\* PDFDownloader.__init__: download_dir.mkdir raises
main_mkdir_raises ==
    /\ cli_pc = "start"
    /\ args.config => config_file # <<UnreadableFile>>
    /\ MainRaises

\* download_all_pdfs returned: main prints the summary and returns
main_return ==
    /\ cli_pc = "running"
    /\ bpc = "done"
    /\ cli_pc' = "exited"
    /\ exit_status' = 0
    /\ UNCHANGED <<dlVars, batchVars, nirfVars, analyzeVars, callVars, args, config_file>>

\* the settings of a user's configuration file
UserSettings == [create_subdirs |-> FALSE]

\* the command lines: with or without --config and --no-verify, with
\* --delay 0 and --max-retries 1
CommandLines ==
    [config : BOOLEAN, no_verify : BOOLEAN, delay : {0}, max_retries : {1}]

InitCli ==
    /\ config = DefaultConfig
    /\ DlIdle
    /\ BatchIdle
    /\ NirfIdle
    /\ AnalyzeIdle
    /\ CallIdle
    /\ args \in CommandLines
    /\ config_file \in (IF args.config
                        THEN {<<>>, <<UserSettings>>, <<CorruptFile>>, <<UnreadableFile>>}
                        ELSE {<<>>})
    /\ cli_pc = "start"
    /\ exit_status = 0

NextCli ==
    \/ main_no_config
    \/ main_config_loaded
    \/ main_config_not_found
    \/ main_config_unparsable
    \/ main_config_unreadable
    \/ main_mkdir_raises
    \/ NextBatch
    \/ main_return

SpecCli == InitCli /\ [][NextCli]_vars

(***************************************************************************)
(* Properties of download_pdf (checked under Spec).                        *)
(***************************************************************************)

\* C1: a call whose target file did not exist and whose every fetch failed with
\* a transport error returns None after exactly max_retries fetches; while its
\* fetches keep failing it is retrying or has returned, it has not raised.
C1_RetriesExhausted ==
    /\ (pc = "returned" /\ ~hist.existed /\ hist.allTransport)
           => (fetches = config.max_retries /\ result = None)
    /\ (~hist.existed /\ hist.allTransport /\ fetches > 0)
           => (pc \in {"fetch", "returned"} /\ fetches <= config.max_retries)

C1_Witness ==
    /\ pc = "returned"
    /\ ~hist.existed
    /\ hist.allTransport
    /\ config.max_retries >= 2
    /\ fetches = config.max_retries
    /\ result = None

C3_SuccessFileIsPdf ==
    (pc = "returned" /\ result # None)
        => /\ result \in DOMAIN fs
           /\ fs[result] # <<>>
           /\ (config.verify_pdf_content => Head(fs[result]) = "%PDF")

\* C3, amended: a returned path is the target path of the link and names a file
\* that exists.
C3_SuccessFileExists ==
    (pc = "returned" /\ result # None)
        => (result = FilePath(config, cur) /\ result \in DOMAIN fs)

C3_Witness ==
    /\ pc = "returned"
    /\ result # None
    /\ hist.wrote
    /\ config.verify_pdf_content
    /\ result \in DOMAIN fs
    /\ Len(fs[result]) = 2

(***************************************************************************)
(* Properties of discovery and of download_all_pdfs (checked under         *)
(* SpecBatch).                                                             *)
(***************************************************************************)
ThePage == targets[1].page

\* every element of the page is an anchor to a PDF that no exclude pattern rejects
OnlyPdfAnchors(page) ==
    \A i \in 1..Len(page) :
        /\ page[i].tag = "a"
        /\ matches_pdf_pattern(page[i].href)
        /\ ~matches_exclude_pattern(page[i].href)

\* the distinct urls the elements of the page point to
PageUrls(page) == {Urljoin(BaseUrl, page[i].href) : i \in 1..Len(page)}

\* C4: no two entries of the list discover_pdf_links returned have equal url.
C4_DiscoveryUniqueUrls ==
    (bpc # "scan" /\ bhist.pagesOk)
        => \A i, j \in 1..Len(all_pdf_links) :
               all_pdf_links[i].url = all_pdf_links[j].url => i = j

\* C5: a finished batch on a page of anchors to k distinct PDF urls, every
\* download answered with a body that starts %PDF, in an empty directory,
\* reports k found, k downloaded, none failed and leaves k files on disk.
C5_BatchLeavesOneFilePerUrl ==
    (bpc = "done" /\ summary_file # <<>> /\ bhist.pagesOk /\ bhist.allClean
        /\ OnlyPdfAnchors(ThePage))
        => LET k == Cardinality(PageUrls(ThePage))
           IN  /\ summary.pdfs_found = k
               /\ summary.pdfs_downloaded = k
               /\ summary.failed_downloads = <<>>
               /\ Cardinality(DOMAIN fs) = k

\* C6: the links are attempted in the order of unique_pdfs whatever the earlier
\* downloads did; when the loop is over every link was attempted and is in
\* exactly one of successful_downloads and failed_downloads, and the counters
\* agree with the lists.
C6_BatchContinues ==
    /\ Len(bhist.attempted) <= Len(unique_pdfs)
    /\ \A i \in 1..Len(bhist.attempted) : bhist.attempted[i] = unique_pdfs[i]
    /\ summary.pdfs_downloaded = Len(summary.successful_downloads)
    /\ bpc = "done" =>
         /\ bhist.attempted = unique_pdfs
         /\ summary.pdfs_found =
                Len(summary.successful_downloads) + Len(summary.failed_downloads)
         /\ \A i \in 1..Len(unique_pdfs) :
                LET ok == \E j \in 1..Len(summary.successful_downloads) :
                              summary.successful_downloads[j].url = unique_pdfs[i].url
                    ko == \E j \in 1..Len(summary.failed_downloads) :
                              summary.failed_downloads[j] = unique_pdfs[i]
                IN  (ok \/ ko) /\ ~(ok /\ ko)

C6_Witness ==
    /\ bpc = "done"
    /\ Len(unique_pdfs) = 2
    /\ summary.failed_downloads = <<unique_pdfs[1]>>
    /\ summary.errors # <<>>
    /\ Len(summary.successful_downloads) = 1
    /\ summary.successful_downloads[1].url = unique_pdfs[2].url

(***************************************************************************)
(* Properties of scrape_and_download_all (checked under SpecScrape).       *)
(***************************************************************************)

\* C7: every run of the batch driver ends with its summary file written to
\* disk, holding the summary (successes, failures, error messages) the run
\* returns, also when no link was found or a critical error occurred.
C7_SummaryAlwaysWritten ==
    npc = "done" => nsummary_file = <<nsummary>>

(***************************************************************************)
(* Properties of extract_text_from_pdf (checked under SpecExtract).        *)
(***************************************************************************)
TheDocument == pdf_dir[pdf_path]
Str_Alpha == <<"A", "l", "p", "h", "a">>

\* the call is one that meets an internal error: the file cannot be opened,
\* the reader rejects it, or a page that is read holds a score float() rejects
MeetsMiningError ==
    /\ pdf_path \in DOMAIN pdf_dir
    /\ TheDocument.parses
    /\ \E i \in DOMAIN TheDocument.pages :
          TheDocument.pages[i].ok /\ TheDocument.pages[i].text = Str_Score_1_2_3
MeetsInternalError ==
    \/ pdf_path \notin DOMAIN pdf_dir
    \/ ~TheDocument.parses
    \/ MeetsMiningError

IsFallback(doc) ==
    /\ doc.full_text = <<>>
    /\ doc.pages = <<>>
    /\ doc.structured_data = <<>>
    /\ doc.word_count = 0
    /\ doc.char_count = 0
    /\ DOMAIN doc.metadata = {"filename", "error"}
    /\ doc.metadata.filename = pdf_path

\* C8: extract_text_from_pdf never raises, and a call that meets an internal
\* error (unreadable file, reader failure, failure in the mining of the
\* structured fields) returns the fallback document: empty full_text, pages
\* and structured_data, zero counts, an error note in metadata.
C8_ExtractNeverRaises ==
    /\ epc # "raised"
    /\ (epc = "returned" /\ MeetsInternalError) => IsFallback(extracted)

\* a document whose second page makes the mining fail was extracted
C8_Witness ==
    /\ epc = "returned"
    /\ MeetsMiningError
    /\ Len(TheDocument.pages) = 2
    /\ page_num = 2
    /\ IsFallback(extracted)
    /\ extracted.metadata.error = "ValueError"

\* entry e is what page i of the document must contribute
IsEntryOf(e, page, i) ==
    /\ e.page_number = i
    /\ IF page.ok
       THEN e.text = page.text /\ e.char_count = Len(page.text) /\ "error" \notin DOMAIN e
       ELSE e.text = <<>> /\ e.char_count = 0 /\ "error" \in DOMAIN e

IsPagesOf(entries, pages, n) ==
    /\ Len(entries) = n
    /\ \A i \in 1..n : IsEntryOf(entries[i], pages[i], i)

Mined == epc = "returned" /\ "error" \notin DOMAIN extracted.metadata

\* the match of Label[:\s]+([^\n]+) in the extracted text
LabelMatch(label) == search(extracted.full_text, Pattern(label, TRUE, "line"), 1)

HasCollegeName(name) ==
    /\ "college_name" \in DOMAIN extracted.structured_data
    /\ extracted.structured_data.college_name = name

\* priority of the four patterns: the first of College, Institute,
\* University, Name that matches gives college_name
PatternPriority ==
    /\ LabelMatch(Str_College).found => HasCollegeName(Strip(LabelMatch(Str_College).group))
    /\ (~LabelMatch(Str_College).found /\ LabelMatch(Str_Institute).found)
          => HasCollegeName(Strip(LabelMatch(Str_Institute).group))
    /\ (~LabelMatch(Str_College).found /\ ~LabelMatch(Str_Institute).found
          /\ LabelMatch(Str_University).found)
          => HasCollegeName(Strip(LabelMatch(Str_University).group))
    /\ (~LabelMatch(Str_College).found /\ ~LabelMatch(Str_Institute).found
          /\ ~LabelMatch(Str_University).found /\ LabelMatch(Str_Name).found)
          => HasCollegeName(Strip(LabelMatch(Str_Name).group))
    /\ (\A l \in {Str_College, Str_Institute, Str_University, Str_Name} : ~LabelMatch(l).found)
          => "college_name" \notin DOMAIN extracted.structured_data

\* C10 as stated: priority of the patterns, and every text that contains both
\* "College: Alpha" and "Institute: Beta" yields "Alpha".
C10_BothLabelsYieldAlpha ==
    Mined =>
        /\ PatternPriority
        /\ (Contains(extracted.full_text, Str_College_Alpha)
              /\ Contains(extracted.full_text, Str_Institute_Beta))
              => HasCollegeName(Str_Alpha)

\* page k of the document reads "College: Alpha" and nothing else, and no
\* page before it holds the word college
AlphaLineFirst(k) ==
    /\ TheDocument.pages[k] = PdfPage(TRUE, Str_College_Alpha)
    /\ \A j \in 1..(k - 1) :
          ~(TheDocument.pages[j].ok
              /\ Contains(Lower(TheDocument.pages[j].text), Lower(Str_College)))

\* C10 (amended): the first pattern, in the order College, Institute,
\* University, Name, that matches gives college_name, whatever label comes
\* first in the text; the name is the rest of the line after the leftmost
\* match of that label.  A text in which "College: Alpha" is a line of its
\* own, with no College label before it, yields "Alpha" wherever "Institute:
\* Beta" stands.
C10_CollegePatternFirst ==
    Mined =>
        /\ PatternPriority
        /\ (\E k \in DOMAIN TheDocument.pages : AlphaLineFirst(k)) => HasCollegeName(Str_Alpha)

\* "Institute: Beta" comes first in the text, "College: Alpha" after it
C10_Witness ==
    /\ Mined
    /\ extracted.full_text = Str_Institute_Beta \o <<"\n">> \o Str_College_Alpha \o <<"\n">>
    /\ HasCollegeName(Str_Alpha)

(***************************************************************************)
(* Properties of the score mining (checked under SpecExtract).             *)
(***************************************************************************)
\* the scores a page of the model carries under a label, in thousandths
PageScores(page, label) ==
    IF ~page.ok THEN <<>>
    ELSE IF page.text = Str_Rank_7_Score_80 /\ label = Str_Score THEN <<80 * FloatUnit>>
    ELSE IF page.text = Str_Rating_90 /\ label = Str_Rating THEN <<90 * FloatUnit>>
    ELSE IF page.text = Str_Points_5 /\ label = Str_Points THEN <<5 * FloatUnit>>
    ELSE <<>>

\* the scores of the pages 1..n under a label, in the order of the document
RECURSIVE DocScores(_, _, _)
DocScores(pages, label, n) ==
    IF n = 0 THEN <<>> ELSE DocScores(pages, label, n - 1) \o PageScores(pages[n], label)

\* what the document holds: all Score values, then all Rating values, then
\* all Points values
ExpectedScores ==
    DocScores(TheDocument.pages, Str_Score, Len(TheDocument.pages))
        \o DocScores(TheDocument.pages, Str_Rating, Len(TheDocument.pages))
        \o DocScores(TheDocument.pages, Str_Points, Len(TheDocument.pages))

RECURSIVE Total(_, _)
Total(s, n) == IF n = 0 THEN 0 ELSE s[n] + Total(s, n - 1)

\* C11: scores lists all Score matches in document order, then all Rating
\* matches, then all Points matches, and average_score is the arithmetic mean
\* of that list; a text with "Score: 80" and "Rating: 90" and no other score
\* gives the scores 80.0 and 90.0 and the average 85.0.
C11_ScoresByPatternThenPosition ==
    (Mined /\ ExpectedScores # <<>>) =>
        /\ "scores" \in DOMAIN extracted.structured_data
        /\ extracted.structured_data.scores = ExpectedScores
        /\ extracted.structured_data.average_score.num
              = Total(ExpectedScores, Len(ExpectedScores))
        /\ extracted.structured_data.average_score.den = Len(ExpectedScores)
        /\ ExpectedScores = <<80 * FloatUnit, 90 * FloatUnit>>
              => extracted.structured_data.average_score.num
                    = 85 * FloatUnit * extracted.structured_data.average_score.den

\* "Rating: 90" comes first in the text, "Score: 80" after it
C11_Witness ==
    /\ Mined
    /\ Len(TheDocument.pages) = 2
    /\ TheDocument.pages[1] = PdfPage(TRUE, Str_Rating_90)
    /\ TheDocument.pages[2] = PdfPage(TRUE, Str_Rank_7_Score_80)
    /\ extracted.structured_data.scores = <<80 * FloatUnit, 90 * FloatUnit>>
    /\ extracted.structured_data.average_score = [num |-> 170 * FloatUnit, den |-> 2]

\* C12: scores and average_score are present together or absent together;
\* they are absent exactly when no Score/Rating/Points pattern matches, and
\* a scores list that is present is not empty.
C12_ScoresAndAverageTogether ==
    Mined =>
        /\ "scores" \in DOMAIN extracted.structured_data
              <=> "average_score" \in DOMAIN extracted.structured_data
        /\ "scores" \in DOMAIN extracted.structured_data <=> ExpectedScores # <<>>
        /\ "scores" \in DOMAIN extracted.structured_data
              => extracted.structured_data.scores # <<>>

\* a document without scores was mined: other fields are there, the two keys are not
C12_Witness ==
    /\ Mined
    /\ ExpectedScores = <<>>
    /\ "college_name" \in DOMAIN extracted.structured_data
    /\ "scores" \notin DOMAIN extracted.structured_data
    /\ "average_score" \notin DOMAIN extracted.structured_data


(***************************************************************************)
(* Properties of NIRFDataAnalyzer (checked under SpecAnalyze)              *)
(***************************************************************************)
\* the indices of the record files that are well-formed records
WellFormed == {i \in DOMAIN json_files : json_files[i] # CorruptFile}

\* the indices of the well-formed record files whose full_text is not empty
WithText == {i \in WellFormed : json_files[i].extracted_data.full_text # <<>>}

\* C13: once the directory is loaded, the loaded records are exactly the
\* well-formed record files, in order, whatever corrupt files lie among
\* them, and the report of basic_statistics counts exactly those records
C13_BadRecordFilesSkipped ==
    /\ apc \in {"loaded", "reported"} =>
        /\ Len(data) = Cardinality(WellFormed)
        /\ data = SelectSeq(json_files, LAMBDA file : file # CorruptFile)
    /\ apc = "reported" =>
        IF WellFormed = {} THEN stats = [error |-> "No data available"]
        ELSE stats.total_colleges = Cardinality(WellFormed)

\* a report over one well-formed record and one corrupt file
C13_Witness ==
    /\ apc = "reported"
    /\ Len(json_files) = 2
    /\ Cardinality(WellFormed) = 1
    /\ "total_colleges" \in DOMAIN stats
    /\ stats.total_colleges = 1

\* C14: without pandas and with at least one record loaded, the report of
\* basic_statistics holds total_colleges, successful_extractions,
\* failed_extractions and success_rate; successful_extractions is the number
\* of records with a non-empty full_text, and successful + failed = total
C14_ReducedReportWithoutPandas ==
    (apc = "reported" /\ ~PANDAS_AVAILABLE /\ data # <<>>) =>
        /\ {"total_colleges", "successful_extractions", "failed_extractions", "success_rate"}
               \subseteq DOMAIN stats
        /\ stats.total_colleges = Len(data)
        /\ stats.successful_extractions = Cardinality(WithText)
        /\ stats.successful_extractions + stats.failed_extractions = stats.total_colleges

\* a reduced report over one record with text and one without
C14_Witness ==
    /\ apc = "reported"
    /\ ~PANDAS_AVAILABLE
    /\ Len(data) = 2
    /\ "note" \in DOMAIN stats
    /\ stats.successful_extractions = 1
    /\ stats.failed_extractions = 1


(***************************************************************************)
(* Properties of _generate_filename and discover_pdf_links (checked under  *)
(* SpecNames)                                                              *)
(***************************************************************************)
\* the filenames a direct call returned: the name _generate_filename
\* returned, or the filenames of the links discover_pdf_links returned
ReturnedNames ==
    IF called = "_generate_filename" THEN {returned}
    ELSE IF called = "discover_pdf_links" THEN {returned[i].filename : i \in DOMAIN returned}
    ELSE {}

\* the percent-decoded basenames of the urls a direct call was given
UrlBasenames ==
    IF called = "_generate_filename" THEN {Basename(Unquote(UrlPath(call_args.url)))}
    ELSE IF called = "discover_pdf_links"
    THEN {Basename(Unquote(UrlPath(call_args.page[i].href))) : i \in DOMAIN call_args.page}
    ELSE {}

C16_NameLengthBounded ==
    \A name \in ReturnedNames : Len(name) <= config.filename_max_length + Len(DotPdf)

\* C17 as stated: no link discover_pdf_links returns has an href or src that
\* matches an exclude pattern
C17_NoExcludedLink ==
    called = "discover_pdf_links" =>
        \A i \in DOMAIN returned : ~matches_exclude_pattern(returned[i].url.rel)


(***************************************************************************)
(* Properties of download_all_pdfs over several urls (checked under        *)
(* SpecMulti)                                                              *)
(***************************************************************************)
\* the links of the first n target pages, a page whose fetch failed giving
\* none
RECURSIVE LinksOfFetched(_)
LinksOfFetched(n) ==
    IF n = 0 THEN <<>>
    ELSE LinksOfFetched(n - 1) \o
         (IF n \in bhist.failedPages THEN <<>>
          ELSE discover_pdf_links(config, targets[n].page, targets[n].url))

\* the urls the summary reports as downloaded or as failed
ReportedUrls ==
    {summary.successful_downloads[i].url : i \in DOMAIN summary.successful_downloads}
    \cup {summary.failed_downloads[i].url : i \in DOMAIN summary.failed_downloads}

\* C18: a page whose fetch fails contributes no link and stops nothing: the
\* urls scanned so far are all recorded, the scan goes on to the last target,
\* the links to download are those of the pages that were fetched, and the
\* batch ends with download_pdf called for each of them and each of them
\* reported
C18_FetchFailureSkipsOnlyThatPage ==
    /\ summary.urls_scanned = [i \in 1..Len(summary.urls_scanned) |-> targets[i].url]
    /\ bpc = "scan" => Len(summary.urls_scanned) = scanned
    /\ all_pdf_links = LinksOfFetched(scanned)
    /\ bpc # "scan" =>
        /\ Len(summary.urls_scanned) = Len(targets)
        /\ unique_pdfs = RemoveDuplicates(LinksOfFetched(Len(targets)), 1, <<>>)
    /\ bpc = "done" =>
        /\ bhist.attempted = unique_pdfs
        /\ \A i \in DOMAIN unique_pdfs : unique_pdfs[i].url \in ReportedUrls

\* the fetch of the first page failed, the second page was scanned and its
\* link was downloaded
C18_Witness ==
    /\ bpc = "done"
    /\ bhist.failedPages = {1}
    /\ summary.urls_scanned = <<BaseUrl, Page2Url>>
    /\ Len(unique_pdfs) = 1
    /\ Len(summary.successful_downloads) = 1
    /\ summary.successful_downloads[1].url = Urljoin(Page2Url, targets[2].page[1].href)


(***************************************************************************)
(* Properties of save_extracted_data (checked under SpecScrape)            *)
(***************************************************************************)
\* C19 as stated: saving the record of a document never overwrites the
\* record of a different document, a document being a PDF file of pdf_dir:
\* a step of save_extracted_data that writes over an existing record file
\* writes the record of the document that file already held
C19_SaveNeverOverwritesAnother ==
    [][ (npc = "extracting" /\ epc = "returned" /\ data_dir' # data_dir)
          => LET json_path == json_filename(pdf_links[nidx], extracted)
             IN  json_path \in DOMAIN data_dir
                   => data_dir[json_path].pdf_info.filename = pdf_links[nidx].filename ]_vars


(***************************************************************************)
(* Properties of main (checked under SpecCli)                              *)
(***************************************************************************)
\* C20 as stated: when the file behind --config cannot be parsed, main does
\* not go on to discovery and download, and it ends with a non-zero exit
\* status
C20_UnparsableConfigIsFatal ==
    (args.config /\ config_file = <<CorruptFile>>) =>
        /\ cli_pc \in {"start", "exited"}
        /\ bpc = "idle"
        /\ cli_pc = "exited" => exit_status # 0


(***************************************************************************)
(* Properties of the waits of download_pdf (checked under Spec)            *)
(***************************************************************************)
\* the seconds of the backoff waits of the current call, in order
Backoffs ==
    LET waits == SelectSeq(sleeps, LAMBDA w : w[1] = "backoff")
    IN  [i \in DOMAIN waits |-> waits[i][2]]

\* C21: the k-th backoff wait of a call lasts 2^(k-1) seconds, there is one
\* wait for every attempt that was followed by another, none after the last
\* attempt, and a call whose every fetch failed with max_retries = n has
\* waited 1, 2, ..., 2^(n-2) seconds when it returns
C21_BackoffSchedule ==
    /\ \A k \in DOMAIN Backoffs : Backoffs[k] = 2^(k - 1)
    /\ Len(Backoffs) = attempt
    /\ attempt <= Max({0, config.max_retries - 1})
    /\ (pc = "returned" /\ ~hist.existed /\ hist.allTransport /\ config.max_retries > 0)
          => Backoffs = [k \in 1..(config.max_retries - 1) |-> 2^(k - 1)]

\* a call with max_retries = 3 whose three fetches failed has waited 1 and
\* then 2 seconds
C21_Witness ==
    /\ pc = "returned"
    /\ result = None
    /\ config.max_retries = 3
    /\ fetches = 3
    /\ hist.allTransport
    /\ sleeps = <<(<<"backoff", 1>>), (<<"backoff", 2>>)>>


\* C22 as stated: in a batch with a delay configured, when the requests of a
\* document follow the requests of the document before it, the call for the
\* earlier document slept delay_between_downloads, whether it succeeded or
\* failed
C22_PauseBetweenDocuments ==
    (config.delay_between_downloads > 0 /\ bpc = "downloading" /\ fetches > 0
       /\ idx > 1 /\ bhist.fetched[idx - 1])
        => bhist.paused[idx - 1]


(***************************************************************************)
(* Properties of the content verification of download_pdf (checked under   *)
(* Spec)                                                                   *)
(***************************************************************************)
\* a step in which a response arrives
ResponseArrives == pc = "fetch" /\ pc' \in {"peek", "open"}

\* a step in which "File may not be a PDF" is logged
WarningLogged == ~warned /\ warned'

\* a step that logs the warning does nothing else than read the first bytes:
\* it goes on to open the target file, no file is touched, nothing is returned
WarningDoesNotAbort ==
    WarningLogged =>
        /\ pc = "peek" /\ pc' = "open"
        /\ (stream = <<>> \/ Head(stream) # "%PDF")
        /\ fs' = fs /\ result' = result /\ attempt' = attempt

\* C23 as stated: under verify_pdf_content the first bytes are checked whenever
\* the content-type of the response lacks pdf, and the warning does not abort
C23_CheckedWheneverTypeLacksPdf ==
    [][ /\ (ResponseArrives /\ config.verify_pdf_content /\ ~hist'.ctypePdf)
            => pc' = "peek"
        /\ WarningDoesNotAbort ]_vars

\* C23: under verify_pdf_content the first bytes are checked exactly when the
\* content-type of the response lacks pdf and the url does not end in .pdf,
\* whatever its case; without verify_pdf_content they never are; and the
\* warning does not abort
C23_CheckedUnlessUrlEndsPdf ==
    [][ /\ ResponseArrives
            => (pc' = "peek" <=> (/\ config.verify_pdf_content
                                  /\ ~hist'.ctypePdf
                                  /\ ~EndsWith(Lower(cur.url.rel), DotPdf)))
        /\ WarningDoesNotAbort ]_vars

\* a call that logged the warning wrote the file and returned its path
C23_Witness ==
    /\ pc = "returned"
    /\ warned
    /\ ~hist.ctypePdf
    /\ result = FilePath(config, cur)
    /\ hist.wrote
    /\ result \in DOMAIN fs


(***************************************************************************)
(* Properties of the titles of discovered links (checked under SpecNames)  *)
(***************************************************************************)
\* the title of an element by the precedence: title attribute, text longer
\* than 3 characters, alt attribute, heading text, parent text of 10 to 200
\* characters, "PDF Document"
TitleByPrecedence(el) ==
    IF Strip(el.title) # <<>> THEN Strip(el.title)
    ELSE IF Len(Strip(el.text)) > 3 THEN Strip(el.text)
    ELSE IF Strip(el.alt) # <<>> THEN Strip(el.alt)
    ELSE IF Strip(el.heading) # <<>> THEN Strip(el.heading)
    ELSE IF 10 <= Len(Strip(el.parent)) /\ Len(Strip(el.parent)) <= 200 THEN Strip(el.parent)
    ELSE Str_PDF_Document

\* C24 as stated: the title of every link discover_pdf_links returns is the
\* title by precedence of an element of the page with that href or src
C24_TitleByPrecedence ==
    called = "discover_pdf_links" =>
        \A i \in DOMAIN returned :
            \E j \in DOMAIN call_args.page :
                /\ call_args.page[j].href = returned[i].url.rel
                /\ returned[i].title = TitleByPrecedence(call_args.page[j])

RECURSIVE JoinTexts(_)
JoinTexts(entries) ==
    IF entries = <<>> THEN <<>>
    ELSE IF Len(entries) = 1 THEN Head(entries).text
    ELSE Head(entries).text \o <<"\n">> \o JoinTexts(Tail(entries))

\* the texts of the page entries that carry no error, each followed by "\n"
RECURSIVE TerminatedTexts(_)
TerminatedTexts(entries) ==
    IF entries = <<>> THEN <<>>
    ELSE (IF "error" \in DOMAIN Head(entries) THEN <<>> ELSE Head(entries).text \o <<"\n">>)
            \o TerminatedTexts(Tail(entries))

CountsAgree ==
    /\ extracted.char_count = Len(extracted.full_text)
    /\ extracted.word_count = WordCount(extracted.full_text)

\* C26 (as stated): in a successful extraction full_text is the texts of all
\* entries of pages, in page order, separated by a newline, char_count is the
\* length of full_text and word_count its number of whitespace-delimited
\* tokens, also when some pages failed.
C26_FullTextJoinsPages ==
    Mined => (extracted.full_text = JoinTexts(extracted.pages) /\ CountsAgree)

\* C26 (amended): in a successful extraction full_text is the texts of the
\* entries of pages that carry no error, in page order, each followed by a
\* newline (an entry with an error adds nothing), char_count is the length
\* of full_text and word_count its number of whitespace-delimited tokens.
C26_FullTextTerminatesPages ==
    Mined => (extracted.full_text = TerminatedTexts(extracted.pages) /\ CountsAgree)

\* a document of a failed page followed by a read page was extracted
C26_Witness ==
    /\ Mined
    /\ Len(extracted.pages) = 2
    /\ "error" \in DOMAIN extracted.pages[1]
    /\ extracted.pages[2].text = Str_Rating_90
    /\ extracted.full_text = Str_Rating_90 \o <<"\n">>
    /\ extracted.char_count = Len(Str_Rating_90) + 1
    /\ extracted.word_count = 2

\* C27: the file written by a successful download_pdf is byte-for-byte the
\* response body, with verify_pdf_content enabled as with it disabled: the
\* read of the first bytes for the signature check drops nothing.
C27_SavedFileIsTheBody ==
    (pc = "returned" /\ result # None /\ ~hist.existed) => fs[result] = hist.body

\* C28: a download_pdf call that returns failure leaves no file at the target
\* path, so a later call for the same link fetches again.
C28_FailureLeavesNoFile ==
    (pc = "returned" /\ result = None /\ cur # NoLink)
       => ~Exists(fs, FilePath(config, cur))

NonTransportFailure == download_pdf_open_fails \/ download_pdf_write_fails
TransportFailure ==
    download_pdf_get_fails \/ download_pdf_peek_fails \/ download_pdf_stream_fails

\* C29: only transport errors are retried in download_pdf: a non-transport
\* exception during an attempt ends the attempt sequence at once, with no
\* further fetch and no backoff wait, and the call returns failure even when
\* attempts remain; an attempt is followed by another only after a transport
\* error.
C29_OnlyTransportErrorsRetried ==
    [][ /\ NonTransportFailure
           => (pc' = "returned" /\ result' = None /\ sleeps' = sleeps
                 /\ fetches' = fetches /\ attempt' = attempt)
        /\ (pc \in {"fetch", "peek", "open", "write"} /\ attempt' = attempt + 1)
           => TransportFailure ]_vars

\* the write of the first attempt of three failed: the call returned failure
\* after one fetch and no wait
C29_Witness ==
    /\ pc = "returned"
    /\ result = None
    /\ config.max_retries = 3
    /\ attempt = 0
    /\ fetches = 1
    /\ sleeps = <<>>
    /\ hist.wrote
    /\ ~hist.existed

\* the counters of the summary are ordered, and once the run is over every
\* link is listed as a success or as a failure
CountersOrdered(sm) ==
    /\ sm.pdfs_processed = Len(sm.successful_files)
    /\ Len(sm.successful_files) <= sm.pdfs_downloaded
    /\ sm.pdfs_downloaded <= sm.pdf_links_found

AllAccounted(sm) == Len(sm.successful_files) + Len(sm.failed_files) = sm.pdf_links_found

\* C30: in scrape_and_download_all a document is counted in pdfs_processed
\* and listed in successful_files only if its record file was actually
\* written by save_extracted_data; at every point pdfs_processed =
\* len(successful_files) <= pdfs_downloaded <= pdf_links_found, and at
\* completion len(successful_files) + len(failed_files) = pdf_links_found.
C30_ProcessedMeansRecordWritten ==
    [][ /\ (nsummary'.pdfs_processed > nsummary.pdfs_processed
               \/ Len(nsummary'.successful_files) > Len(nsummary.successful_files))
              => \E k \in DOMAIN data_dir' : data_dir'[k].pdf_info = pdf_links[nidx]
        /\ CountersOrdered(nsummary')
        /\ npc' = "done" => AllAccounted(nsummary') ]_vars

====
